---- MODULE Spec2Model ----
(***************************************************************************)
(* Verification model of the apply endpoint (apply-ai-code-stream) of the *)
(* code-generation service: the path policy, the request schema and the   *)
(* streaming apply loop of src/app/api/search/route.ts.                    *)
(*                                                                         *)
(* A path is a sequence of tokens: "/" is the separator character, "." a   *)
(* dot character, every other token is a run of characters holding neither *)
(* (a name atom).  All string operations of the source that the policy     *)
(* relies on (includes('..'), startsWith, endsWith, split, basename,       *)
(* extname, normalize, resolve) keep their meaning on this representation, *)
(* since "/" and "." are single characters.  path is node's POSIX path.    *)
(***************************************************************************)
EXTENDS Integers, Sequences, FiniteSets, TLC

\* ------------------------------------------------------------------------
\* Bounds of the model
\* ------------------------------------------------------------------------

\* longest batch of files explored file by file
MaxFiles == 3
\* most segments of a path given to the path classifier on its own
MaxSegs == 3
\* most blocks of a generated text, and most candidates of a merge
MaxBlocks == 3
\* most generation requests the server receives
MaxRequests == 2
\* most generation requests served at the same time
MaxConcurrent == 2
\* most kill-sandbox requests the server receives
MaxKills == 1
\* most run-command requests the server receives
MaxCommands == 1

\* ------------------------------------------------------------------------
\* Strings as token sequences
\* ------------------------------------------------------------------------

SEP == "/"
DOT == "."

\* number of characters of a token ("LONG" stands for a name of 501 characters)
CharLen(t) ==
  CASE t = "LONG" -> 501
    [] t = "node_modules" -> 12
    [] t \in {"package", "staging", "example", "</file>"} -> 7
    [] t = "longer" -> 6
    [] t \in {"build", "local", "<file", "path="} -> 5
    [] t \in {"json", "code", "Here"} -> 4
    [] t \in {"src", "env", "git", "exe", "lib", "'''", "abc", "xyz"} -> 3
    [] t = "ts" -> 2
    [] OTHER -> 1

RECURSIVE StrLen(_)
StrLen(s) == IF s = <<>> THEN 0 ELSE CharLen(Head(s)) + StrLen(Tail(s))

\* String.prototype.startsWith / endsWith
startsWith(s, pre) ==
  Len(pre) <= Len(s) /\ SubSeq(s, 1, Len(pre)) = pre

endsWith(s, suf) ==
  Len(suf) <= Len(s) /\ SubSeq(s, Len(s) - Len(suf) + 1, Len(s)) = suf

\* s.includes('..')
includesDotDot(s) ==
  \E i \in 1..(Len(s) - 1) : s[i] = DOT /\ s[i + 1] = DOT

\* s.split('/')
RECURSIVE SplitFrom(_, _, _)
SplitFrom(s, i, cur) ==
  IF i > Len(s) THEN <<cur>>
  ELSE IF s[i] = SEP THEN <<cur>> \o SplitFrom(s, i + 1, <<>>)
  ELSE SplitFrom(s, i + 1, Append(cur, s[i]))

split(s) == SplitFrom(s, 1, <<>>)

\* segs.join('/')
RECURSIVE join(_)
join(segs) ==
  IF segs = <<>> THEN <<>>
  ELSE IF Len(segs) = 1 THEN segs[1]
  ELSE segs[1] \o <<SEP>> \o join(Tail(segs))

\* s.replace(/^\/+/, '')
RECURSIVE stripLeadingSlashes(_)
stripLeadingSlashes(s) ==
  IF s # <<>> /\ Head(s) = SEP THEN stripLeadingSlashes(Tail(s)) ELSE s

RECURSIVE stripTrailingSlashes(_)
stripTrailingSlashes(s) ==
  IF s # <<>> /\ s[Len(s)] = SEP
  THEN stripTrailingSlashes(SubSeq(s, 1, Len(s) - 1)) ELSE s

\* ------------------------------------------------------------------------
\* node:path (POSIX)
\* ------------------------------------------------------------------------

DotDotSeg == <<DOT, DOT>>
DotSeg == <<DOT>>

isAbsolute(p) == p # <<>> /\ p[1] = SEP

\* normalizeString: resolves "." and ".." segments, drops empty segments
RECURSIVE normalizeSegs(_, _, _)
normalizeSegs(segs, res, allowAboveRoot) ==
  IF segs = <<>> THEN res
  ELSE LET seg == Head(segs)
           rest == Tail(segs)
       IN  IF seg = <<>> \/ seg = DotSeg
           THEN normalizeSegs(rest, res, allowAboveRoot)
           ELSE IF seg = DotDotSeg
           THEN IF res # <<>> /\ res[Len(res)] # DotDotSeg
                THEN normalizeSegs(rest, SubSeq(res, 1, Len(res) - 1), allowAboveRoot)
                ELSE IF allowAboveRoot
                THEN normalizeSegs(rest, Append(res, seg), allowAboveRoot)
                ELSE normalizeSegs(rest, res, allowAboveRoot)
           ELSE normalizeSegs(rest, Append(res, seg), allowAboveRoot)

\* path.normalize
normalize(p) ==
  IF p = <<>> THEN <<DOT>>
  ELSE LET abs == isAbsolute(p)
           trailing == p[Len(p)] = SEP
           body == join(normalizeSegs(split(p), <<>>, ~abs))
       IN  IF body = <<>>
           THEN IF abs THEN <<SEP>> ELSE IF trailing THEN <<DOT, SEP>> ELSE <<DOT>>
           ELSE (IF abs THEN <<SEP>> ELSE <<>>) \o body
                \o (IF trailing THEN <<SEP>> ELSE <<>>)

\* path.resolve(root, p) for an absolute root
resolve(root, p) ==
  LET full == IF isAbsolute(p) THEN p ELSE root \o <<SEP>> \o p
      body == join(normalizeSegs(split(full), <<>>, FALSE))
  IN  <<SEP>> \o body

\* path.basename
basename(p) ==
  LET q == stripTrailingSlashes(p)
      segs == split(q)
  IN  segs[Len(segs)]

\* path.dirname
dirname(p) ==
  LET q == stripTrailingSlashes(p)
      segs == split(q)
  IN  IF q = <<>> THEN (IF p = <<>> THEN <<DOT>> ELSE <<SEP>>)
      ELSE IF Len(segs) = 1 THEN <<DOT>>
      ELSE LET d == stripTrailingSlashes(join(SubSeq(segs, 1, Len(segs) - 1)))
           IN  IF d = <<>> THEN <<SEP>> ELSE d

\* position of the last dot of s, 0 when it has none
RECURSIVE lastDot(_, _)
lastDot(s, i) ==
  IF i = 0 THEN 0 ELSE IF s[i] = DOT THEN i ELSE lastDot(s, i - 1)

\* path.extname
extname(p) ==
  LET b == basename(p)
      d == lastDot(b, Len(b))
  IN  IF d = 0 \/ d = 1 \/ b = DotDotSeg THEN <<>>
      ELSE SubSeq(b, d, Len(b))

\* ------------------------------------------------------------------------
\* SECURITY_CONFIG
\* ------------------------------------------------------------------------

protectedFiles ==
  { <<DOT, "env">>, <<DOT, "env", DOT, "local">>, <<DOT, "env", DOT, "development">>,
    <<DOT, "env", DOT, "production">>, <<DOT, "env", DOT, "test">>,
    <<DOT, "git">>, <<DOT, "gitignore">>, <<"package-lock", DOT, "json">>,
    <<"yarn", DOT, "lock">>, <<"pnpm-lock", DOT, "yaml">> }

protectedDirectories ==
  { <<DOT, "git">>, <<"node_modules">>, <<DOT, "next">>, <<"dist">>, <<"build">>,
    <<DOT, "vercel">>, <<DOT, "cache">> }

allowedExtensions ==
  { <<DOT, "js">>, <<DOT, "jsx">>, <<DOT, "ts">>, <<DOT, "tsx">>, <<DOT, "json">>,
    <<DOT, "html">>, <<DOT, "css">>, <<DOT, "scss">>, <<DOT, "sass">>, <<DOT, "md">>,
    <<DOT, "mdx">>, <<DOT, "txt">>, <<DOT, "svg">>, <<DOT, "png">>, <<DOT, "jpg">>,
    <<DOT, "jpeg">>, <<DOT, "gif">>, <<DOT, "webp">>,
    <<DOT, "env", DOT, "example">>, <<DOT, "gitignore", DOT, "example">> }

\* process.cwd() of the server
projectRoot == <<SEP, "proj">>

\* ------------------------------------------------------------------------
\* isPathSafe
\* ------------------------------------------------------------------------

Safe == [safe |-> TRUE, reason |-> "none", arg |-> <<>>]
Unsafe(reason, arg) == [safe |-> FALSE, reason |-> reason, arg |-> arg]

\* the conditions of the six checks, each on the path after path.normalize
traversalCheck(n) == includesDotDot(n)
absoluteCheck(n) == isAbsolute(n)
escapeCheck(n) == ~startsWith(resolve(projectRoot, n), projectRoot)
protectedFileCheck(n) == basename(n) \in protectedFiles
pathSegments(n) == split(n)
protectedDirCheck(n) ==
  \E i \in 1..Len(pathSegments(n)) : pathSegments(n)[i] \in protectedDirectories
firstProtectedDir(n) ==
  LET segs == pathSegments(n)
      i == CHOOSE k \in 1..Len(segs) :
             /\ segs[k] \in protectedDirectories
             /\ \A j \in 1..(k - 1) : segs[j] \notin protectedDirectories
  IN  segs[i]
hasValidExtension(n) == \E allowed \in allowedExtensions : endsWith(n, allowed)
extensionCheck(n) == ~hasValidExtension(n) /\ extname(n) # <<>>

\* isPathSafe with the protected-directory check ahead of the protected-file check
isPathSafe_DirFirst(filePath) ==
  LET normalized == normalize(filePath)
  IN  IF traversalCheck(normalized)
      THEN Unsafe("Path traversal detected", <<>>)
      ELSE IF absoluteCheck(normalized)
      THEN Unsafe("Absolute paths not allowed", <<>>)
      ELSE IF escapeCheck(normalized)
      THEN Unsafe("Path escapes project root", <<>>)
      ELSE IF protectedDirCheck(normalized)
      THEN Unsafe("Protected directory", firstProtectedDir(normalized))
      ELSE IF protectedFileCheck(normalized)
      THEN Unsafe("Protected file", basename(normalized))
      ELSE IF extensionCheck(normalized)
      THEN Unsafe("File extension not allowed", extname(normalized))
      ELSE Safe

\* isPathSafe without the protected-file check
isPathSafe_NoProtectedFile(filePath) ==
  LET normalized == normalize(filePath)
  IN  IF traversalCheck(normalized)
      THEN Unsafe("Path traversal detected", <<>>)
      ELSE IF absoluteCheck(normalized)
      THEN Unsafe("Absolute paths not allowed", <<>>)
      ELSE IF escapeCheck(normalized)
      THEN Unsafe("Path escapes project root", <<>>)
      ELSE IF protectedDirCheck(normalized)
      THEN Unsafe("Protected directory", firstProtectedDir(normalized))
      ELSE IF extensionCheck(normalized)
      THEN Unsafe("File extension not allowed", extname(normalized))
      ELSE Safe

isPathSafe(filePath) ==
  LET normalized == normalize(filePath)
  IN  IF traversalCheck(normalized)
      THEN Unsafe("Path traversal detected", <<>>)
      ELSE IF absoluteCheck(normalized)
      THEN Unsafe("Absolute paths not allowed", <<>>)
      ELSE IF escapeCheck(normalized)
      THEN Unsafe("Path escapes project root", <<>>)
      ELSE IF protectedFileCheck(normalized)
      THEN Unsafe("Protected file", basename(normalized))
      ELSE IF protectedDirCheck(normalized)
      THEN Unsafe("Protected directory", firstProtectedDir(normalized))
      ELSE IF extensionCheck(normalized)
      THEN Unsafe("File extension not allowed", extname(normalized))
      ELSE Safe

\* ------------------------------------------------------------------------
\* normalizeFilePath
\* ------------------------------------------------------------------------

configFiles ==
  { <<"package", DOT, "json">>, <<"tsconfig", DOT, "json">>,
    <<"next", DOT, "config", DOT, "js">>, <<"next", DOT, "config", DOT, "mjs">>,
    <<"tailwind", DOT, "config", DOT, "js">>, <<"tailwind", DOT, "config", DOT, "ts">>,
    <<"postcss", DOT, "config", DOT, "js">>, <<"README", DOT, "md">> }

validDirs ==
  { <<"src", SEP>>, <<"public", SEP>>, <<"app", SEP>>, <<"pages", SEP>>,
    <<"components", SEP>>, <<"lib", SEP>>, <<"styles", SEP>>, <<"utils", SEP>> }

normalizeFilePath(filePath) ==
  LET normalized == stripLeadingSlashes(filePath)
      fileName == basename(normalized)
      startsWithValidDir ==
        \/ \E d \in validDirs : startsWith(normalized, d)
        \/ fileName \in configFiles
  IN  IF ~startsWithValidDir /\ fileName \notin configFiles
      THEN <<"src", SEP>> \o normalized
      ELSE normalized

\* ------------------------------------------------------------------------
\* FileSchema, ApplyCodeRequestSchema
\* ------------------------------------------------------------------------

\* z.string().max(500)
MaxPathChars == 500
\* z.array(FileSchema).max(100)
MaxBatch == 100

stripDotSlash(p) == IF startsWith(p, <<DOT, SEP>>) THEN SubSeq(p, 3, Len(p)) ELSE p

\* the issues FileSchema raises for a path (empty set: the path is accepted)
FileSchemaIssues(p) ==
  (IF StrLen(p) < 1 THEN {"File path cannot be empty"} ELSE {})
  \cup (IF StrLen(p) > MaxPathChars THEN {"File path too long"} ELSE {})
  \cup (IF includesDotDot(p) THEN {"Path traversal detected: \"..\" not allowed"} ELSE {})
  \cup (IF isAbsolute(p) THEN {"Absolute paths not allowed"} ELSE {})
  \cup (IF normalize(p) = p \/ normalize(p) = <<DOT, SEP>> \o p
           \/ normalize(p) = stripDotSlash(p)
        THEN {} ELSE {"Invalid path format"})

\* FileSchema without the refinement that rejects ".."
FileSchema_NoTraversal(p) ==
  FileSchemaIssues(p) \ {"Path traversal detected: \"..\" not allowed"} = {}

\* FileSchema that rejects ".." only as a whole segment of the path
FileSchema_SegmentTraversal(p) ==
  /\ FileSchemaIssues(p) \ {"Path traversal detected: \"..\" not allowed"} = {}
  /\ \A k \in 1..Len(split(p)) : split(p)[k] # <<DOT, DOT>>

FileSchema(p) == FileSchemaIssues(p) = {}

\* ApplyCodeRequestSchema without the .max(100) bound
ApplyCodeRequestSchema_NoMax(files) ==
  /\ Len(files) >= 1
  /\ \A i \in 1..Len(files) : FileSchema(files[i].path)

\* files: a sequence of [path, content] records
ApplyCodeRequestSchema(files) ==
  /\ Len(files) >= 1
  /\ Len(files) <= MaxBatch
  /\ \A i \in 1..Len(files) : FileSchema(files[i].path)

\* ------------------------------------------------------------------------
\* State
\* ------------------------------------------------------------------------

VARIABLES
  body,            \* the request body: [kind, files]
  pc,              \* position of the background task of POST
  i,               \* currentIndex of the file loop (1-based)
  normalizedPath,  \* normalizedPath of the file being processed
  exists,          \* result of fileExists for the file being processed
  thrown,          \* message of the exception on its way to a catch block
  events,          \* the messages handed to sendProgress, in order
  filesCreated,    \* results.filesCreated
  filesUpdated,    \* results.filesUpdated
  errors,          \* results.errors
  disk,            \* files on disk: resolved path -> content
  dirs,            \* directories on disk (resolved paths)
  fsLog,           \* history of filesystem mutations: [op, path, idx]
  checked,         \* history of isPathSafe results: [idx, result]
  closeCalls,      \* number of writer.close() calls so far
  fnPath,          \* classifier harness: the path given to isPathSafe
  fnResult,        \* classifier harness: the result returned
  fnPc,            \* classifier harness: "call" or "returned"
  run,             \* number of the apply request being served (1 or 2)
  firstRun,        \* results and disk at the end of the first apply request
  gen,             \* generation endpoint: the state of the request in each slot
  conversationState, \* global.conversationState
  env,             \* which API keys are set, and whether a file manifest is cached
  now,             \* Date.now() at its last reading
  calls,           \* number of streamText calls so far
  arrivals,        \* number of generation requests received so far
  disconnectedAt,  \* apply endpoint: Len(events) when the caller went away, -1 before
  activeSandbox,   \* global.activeSandbox: 0 when unset, else the number of a session
  activeSandboxProvider, \* global.activeSandboxProvider, likewise
  sandboxData,     \* global.sandboxData: 0 when unset, else the session it describes
  existingFiles,   \* global.existingFiles: the set of tracked files
  killReq,         \* kill-sandbox endpoint: the state of the request in each slot
  cmdReq,          \* run-command endpoint: the state of the request in each slot
  runCommandLog,   \* the calls of runCommand so far: [session, cmd, args]
  cleared          \* a kill-sandbox request has completed and no sandbox was
                   \* registered since

applyVars ==
  <<body, pc, i, normalizedPath, exists, thrown, events, filesCreated, filesUpdated,
    errors, disk, dirs, fsLog, checked, closeCalls>>
fnVars == <<fnPath, fnResult, fnPc>>
twiceVars == <<run, firstRun>>
genVars == <<gen, conversationState, env, now, calls, arrivals>>
netVars == <<disconnectedAt>>
sandboxVars ==
  <<activeSandbox, activeSandboxProvider, sandboxData, existingFiles, killReq, cmdReq,
    runCommandLog, cleared>>
otherVars == <<fnVars, twiceVars, genVars, netVars, sandboxVars>>
vars == <<applyVars, otherVars>>

\* ------------------------------------------------------------------------
\* Inputs
\* ------------------------------------------------------------------------

\* paths a request may carry
InputPaths ==
  { <<"a", DOT, "ts">>,                          \* a.ts
    <<"src", SEP, "a", DOT, "ts">>,              \* src/a.ts
    <<"lib", SEP, "b", DOT, "ts">>,              \* lib/b.ts
    <<DOT, SEP, DOT, "env">>,                    \* ./.env
    <<"node_modules", SEP, "x", DOT, "ts">>,     \* node_modules/x.ts
    <<"x", DOT, "exe">>,                         \* x.exe
    <<DOT, DOT, SEP, "x">>,                      \* ../x
    <<SEP, "abs", DOT, "ts">>,                   \* /abs.ts
    <<>>,                                        \* the empty path
    <<"LONG", DOT, "ts">> }                      \* a path of 504 characters

\* a.ts and src/a.ts name the same file and carry different contents
InputFiles ==
  { [path |-> p, content |-> IF p = <<"src", SEP, "a", DOT, "ts">> THEN "c2" ELSE "c1"] :
      p \in InputPaths }

RECURSIVE SeqsUpTo(_, _)
SeqsUpTo(S, n) ==
  IF n = 0 THEN { <<>> }
  ELSE LET shorter == SeqsUpTo(S, n - 1)
       IN  shorter \cup { Append(q, x) : q \in { r \in shorter : Len(r) = n - 1 }, x \in S }

\* a batch of MaxBatch + 1 valid files
OversizedBatch == [k \in 1..(MaxBatch + 1) |-> [path |-> <<"a", DOT, "ts">>, content |-> "c1"]]

Batches == SeqsUpTo(InputFiles, MaxFiles) \cup { OversizedBatch }

\* badjson: request.json() throws; null: the JSON value null; nofiles: an object
\* with neither files nor generatedCode; files: an object with a files array
Bodies ==
  { [kind |-> k, files |-> <<>>] : k \in {"badjson", "null", "nofiles"} }
  \cup { [kind |-> "files", files |-> b] : b \in Batches }

srcDir == resolve(projectRoot, <<"src">>)
oldFile == resolve(projectRoot, <<"src", SEP, "a", DOT, "ts">>)

\* ------------------------------------------------------------------------
\* Events
\* ------------------------------------------------------------------------

NoError == [reason |-> "none", arg |-> <<>>]
NoResults == [filesCreated |-> <<>>, filesUpdated |-> <<>>, errors |-> <<>>]

\* a ProgressMessage; idx is the loop index the message was produced in (0 outside
\* the loop), kept for stating the ordering properties
Message(type, idx, fileName, action, error, results) ==
  [type |-> type, idx |-> idx, fileName |-> fileName, action |-> action,
   error |-> error, results |-> results]

\* sendProgress: hands the message to the writer; a failing write is swallowed
sendProgress(msg) == events' = Append(events, msg)

\* ------------------------------------------------------------------------
\* Filesystem helpers
\* ------------------------------------------------------------------------

EmptyDisk == [p \in {} |-> "none"]

\* the directory and all its ancestors: what fs.mkdir(dir, {recursive: true}) creates
Ancestors(absDir) ==
  LET segs == Tail(split(absDir))
  IN  { <<SEP>> \o join(SubSeq(segs, 1, k)) : k \in 1..Len(segs) }

\* fileExists: fs.access succeeds on files and on directories
fileExists(filePath) ==
  LET absolutePath == resolve(projectRoot, filePath)
  IN  absolutePath \in DOMAIN disk \/ absolutePath \in dirs

FsError(code) == [reason |-> code, arg |-> <<>>]

\* ------------------------------------------------------------------------
\* The background task of POST
\* ------------------------------------------------------------------------

FnIdle == fnPath = <<>> /\ fnResult = Safe /\ fnPc = "idle"

\* a slot of the generation endpoint that holds no request
NoRequest == [kind |-> "none"]
NoResponse == [kind |-> "pending", status |-> 0]
NoSelection == [provider |-> "none", model |-> "none"]
NoMessage == [id |-> 0, role |-> "none", content |-> <<>>]
NoCall == [client |-> "none", model |-> "none", system |-> "none", history |-> <<>>,
           prompt |-> <<>>]
IdleSlot ==
  [pc |-> "none", req |-> NoRequest, resp |-> NoResponse, events |-> <<>>,
   generatedCode |-> <<>>, rest |-> <<>>, selected |-> NoSelection,
   editContext |-> FALSE, userMessage |-> NoMessage, history |-> <<>>,
   call |-> NoCall, thrown |-> "none", closeCalls |-> 0]

\* concurrent generation requests the server has slots for
Slots == 1..MaxConcurrent

\* global.conversationState before the first accepted generation request
NoConversation == [exists |-> FALSE, messages |-> <<>>, edits |-> <<>>]

\* no generation request has been received
GenIdle ==
  /\ gen = [r \in Slots |-> IdleSlot]
  /\ conversationState = NoConversation
  /\ env = [google |-> TRUE, groq |-> TRUE, manifest |-> FALSE]
  /\ now = 0
  /\ calls = 0
  /\ arrivals = 0

\* the first request is being served and nothing is remembered of an earlier one
NoFirstRun == [results |-> NoResults, disk |-> EmptyDisk]
FirstRequest == run = 1 /\ firstRun = NoFirstRun

\* the caller of the apply request is still reading the stream
Connected == disconnectedAt = -1

\* the kill-sandbox and run-command endpoints have received no request and no
\* sandbox is registered
KillSlots == 1..MaxKills
CmdSlots == 1..MaxCommands
NoJson == [status |-> 0, success |-> FALSE, sandboxKilled |-> FALSE, error |-> "none"]
NoKill == [pc |-> "none", sessionToKill |-> 0, resp |-> NoJson]
NoCommand == [kind |-> "none", value |-> <<>>]
NoCmd == [pc |-> "none", command |-> NoCommand, afterKill |-> FALSE, resp |-> NoJson]
NoFileTracking == [defined |-> FALSE, files |-> {}]
SandboxIdle ==
  /\ activeSandbox = 0
  /\ activeSandboxProvider = 0
  /\ sandboxData = 0
  /\ existingFiles = NoFileTracking
  /\ killReq = [k \in KillSlots |-> NoKill]
  /\ cmdReq = [c \in CmdSlots |-> NoCmd]
  /\ runCommandLog = <<>>
  /\ cleared = FALSE

Init ==
  /\ body \in Bodies
  /\ pc = "start"
  /\ i = 1
  /\ normalizedPath = <<>>
  /\ exists = FALSE
  /\ thrown = NoError
  /\ events = <<>>
  /\ filesCreated = <<>>
  /\ filesUpdated = <<>>
  /\ errors = <<>>
  /\ \/ disk = EmptyDisk /\ dirs = {projectRoot}
     \/ disk = (oldFile :> "old") /\ dirs = {projectRoot, srcDir}
  /\ fsLog = <<>>
  /\ checked = <<>>
  /\ closeCalls = 0
  /\ FnIdle
  /\ FirstRequest
  /\ Connected
  /\ SandboxIdle
  /\ GenIdle

file == body.files[i]
total == Len(body.files)
results == [filesCreated |-> filesCreated, filesUpdated |-> filesUpdated, errors |-> errors]

\* body = await request.json()
ReadBody ==
  /\ pc = "start"
  /\ pc' = IF body.kind = "badjson" THEN "jsonError" ELSE "prepare"
  /\ UNCHANGED <<body, i, normalizedPath, exists, thrown, events, filesCreated,
                 filesUpdated, errors, disk, dirs, fsLog, checked, closeCalls, otherVars>>

\* catch (parseError): the error event
JsonError ==
  /\ pc = "jsonError"
  /\ sendProgress(Message("error", 0, <<>>, "",
                          [reason |-> "Invalid JSON in request body", arg |-> <<>>], NoResults))
  /\ pc' = "closeAfterJsonError"
  /\ UNCHANGED <<body, i, normalizedPath, exists, thrown, filesCreated,
                 filesUpdated, errors, disk, dirs, fsLog, checked, closeCalls, otherVars>>

\* await writer.close(); return  -- the return runs the finally block
CloseAfterJsonError ==
  /\ pc = "closeAfterJsonError"
  /\ closeCalls' = closeCalls + 1
  /\ pc' = "finally"
  /\ UNCHANGED <<body, i, normalizedPath, exists, thrown, events, filesCreated,
                 filesUpdated, errors, disk, dirs, fsLog, checked, otherVars>>

\* if (body.generatedCode && !body.files): reading a property of null throws
PrepareFiles ==
  /\ pc = "prepare"
  /\ IF body.kind = "null"
     THEN /\ thrown' = [reason |-> "Cannot read properties of null", arg |-> <<>>]
          /\ pc' = "fatal"
     ELSE /\ thrown' = thrown
          /\ pc' = "validate"
  /\ UNCHANGED <<body, i, normalizedPath, exists, events, filesCreated,
                 filesUpdated, errors, disk, dirs, fsLog, checked, closeCalls, otherVars>>

\* validatedData = ApplyCodeRequestSchema.parse(body)
Validate ==
  /\ pc = "validate"
  /\ pc' = IF body.kind = "files" /\ ApplyCodeRequestSchema(body.files)
           THEN "status" ELSE "validationError"
  /\ UNCHANGED <<body, i, normalizedPath, exists, thrown, events, filesCreated,
                 filesUpdated, errors, disk, dirs, fsLog, checked, closeCalls, otherVars>>

\* catch (validationError): the error event
ValidationError ==
  /\ pc = "validationError"
  /\ sendProgress(Message("error", 0, <<>>, "",
                          [reason |-> "Validation failed", arg |-> <<>>], NoResults))
  /\ pc' = "closeAfterValidationError"
  /\ UNCHANGED <<body, i, normalizedPath, exists, thrown, filesCreated,
                 filesUpdated, errors, disk, dirs, fsLog, checked, closeCalls, otherVars>>

\* the validation catch block without its return: execution falls into the status event
CloseAfterValidationError_NoReturn ==
  /\ pc = "closeAfterValidationError"
  /\ closeCalls' = closeCalls + 1
  /\ pc' = "status"
  /\ UNCHANGED <<body, i, normalizedPath, exists, thrown, events, filesCreated,
                 filesUpdated, errors, disk, dirs, fsLog, checked, otherVars>>

\* await writer.close(); return  -- the return runs the finally block
CloseAfterValidationError ==
  /\ pc = "closeAfterValidationError"
  /\ closeCalls' = closeCalls + 1
  /\ pc' = "finally"
  /\ UNCHANGED <<body, i, normalizedPath, exists, thrown, events, filesCreated,
                 filesUpdated, errors, disk, dirs, fsLog, checked, otherVars>>

\* the status event and the empty results
SendStatus ==
  /\ pc = "status"
  /\ sendProgress(Message("status", 0, <<>>, "", NoError, NoResults))
  /\ filesCreated' = <<>>
  /\ filesUpdated' = <<>>
  /\ errors' = <<>>
  /\ i' = 1
  /\ pc' = "loop"
  /\ UNCHANGED <<body, normalizedPath, exists, thrown, disk, dirs, fsLog, checked,
                 closeCalls, otherVars>>

\* loop head, normalizeFilePath and file-progress(validating)
StartFile ==
  /\ pc = "loop"
  /\ i <= total
  /\ normalizedPath' = normalizeFilePath(file.path)
  /\ sendProgress(Message("file-progress", i, normalizedPath', "validating", NoError, NoResults))
  /\ pc' = "check"
  /\ UNCHANGED <<body, i, exists, thrown, filesCreated, filesUpdated, errors, disk,
                 dirs, fsLog, checked, closeCalls, otherVars>>

\* CheckPath with break in place of continue: an unsafe file ends the loop
CheckPath_Break ==
  /\ pc = "check"
  /\ LET pathCheck == isPathSafe(normalizedPath)
     IN  /\ checked' = Append(checked, [idx |-> i, result |-> pathCheck])
         /\ IF ~pathCheck.safe
            THEN /\ errors' = Append(errors, [path |-> normalizedPath,
                                              reason |-> pathCheck.reason,
                                              arg |-> pathCheck.arg])
                 /\ sendProgress(Message("file-error", i, normalizedPath, "",
                                         [reason |-> pathCheck.reason, arg |-> pathCheck.arg],
                                         NoResults))
                 /\ i' = total + 1
                 /\ pc' = "loop"
            ELSE /\ UNCHANGED <<errors, events, i>>
                 /\ pc' = "exists"
  /\ UNCHANGED <<body, normalizedPath, exists, thrown, filesCreated, filesUpdated,
                 disk, dirs, fsLog, closeCalls, otherVars>>

\* CheckPath that computes the classification and does not act on it
CheckPath_NoGate ==
  /\ pc = "check"
  /\ checked' = Append(checked, [idx |-> i, result |-> isPathSafe(normalizedPath)])
  /\ pc' = "exists"
  /\ UNCHANGED <<body, i, normalizedPath, exists, thrown, events, filesCreated,
                 filesUpdated, errors, disk, dirs, fsLog, closeCalls, otherVars>>

\* CheckPath without continue: an unsafe file is reported and then processed
CheckPath_NoContinue ==
  /\ pc = "check"
  /\ LET pathCheck == isPathSafe(normalizedPath)
     IN  /\ checked' = Append(checked, [idx |-> i, result |-> pathCheck])
         /\ IF ~pathCheck.safe
            THEN /\ errors' = Append(errors, [path |-> normalizedPath,
                                              reason |-> pathCheck.reason,
                                              arg |-> pathCheck.arg])
                 /\ sendProgress(Message("file-error", i, normalizedPath, "",
                                         [reason |-> pathCheck.reason, arg |-> pathCheck.arg],
                                         NoResults))
            ELSE UNCHANGED <<errors, events>>
         /\ pc' = "exists"
  /\ UNCHANGED <<body, i, normalizedPath, exists, thrown, filesCreated, filesUpdated,
                 disk, dirs, fsLog, closeCalls, otherVars>>

\* pathCheck = isPathSafe(normalizedPath); unsafe: errors, file-error, continue
CheckPath ==
  /\ pc = "check"
  /\ LET pathCheck == isPathSafe(normalizedPath)
     IN  /\ checked' = Append(checked, [idx |-> i, result |-> pathCheck])
         /\ IF ~pathCheck.safe
            THEN /\ errors' = Append(errors, [path |-> normalizedPath,
                                              reason |-> pathCheck.reason,
                                              arg |-> pathCheck.arg])
                 /\ sendProgress(Message("file-error", i, normalizedPath, "",
                                         [reason |-> pathCheck.reason, arg |-> pathCheck.arg],
                                         NoResults))
                 /\ i' = i + 1
                 /\ pc' = "loop"
            ELSE /\ UNCHANGED <<errors, events, i>>
                 /\ pc' = "exists"
  /\ UNCHANGED <<body, normalizedPath, exists, thrown, filesCreated, filesUpdated,
                 disk, dirs, fsLog, closeCalls, otherVars>>

\* exists = await fileExists(normalizedPath); file-progress(creating|updating)
CheckExists ==
  /\ pc = "exists"
  /\ exists' = fileExists(normalizedPath)
  /\ sendProgress(Message("file-progress", i, normalizedPath,
                          IF exists' THEN "updating" ELSE "creating", NoError, NoResults))
  /\ pc' = "mkdir"
  /\ UNCHANGED <<body, i, normalizedPath, thrown, filesCreated, filesUpdated, errors,
                 disk, dirs, fsLog, checked, closeCalls, otherVars>>

\* await ensureDirectory(normalizedPath): mkdir when fs.access fails; mkdir may throw
ensureDirectory ==
  /\ pc = "mkdir"
  /\ LET absoluteDir == resolve(projectRoot, dirname(normalizedPath))
     IN  IF absoluteDir \in dirs \/ absoluteDir \in DOMAIN disk
         THEN /\ pc' = "write"
              /\ UNCHANGED <<dirs, fsLog, thrown>>
         ELSE \/ /\ dirs' = dirs \cup Ancestors(absoluteDir)
                 /\ fsLog' = Append(fsLog, [op |-> "mkdir", path |-> absoluteDir, idx |-> i])
                 /\ pc' = "write"
                 /\ UNCHANGED thrown
              \/ /\ thrown' = FsError("EACCES")
                 /\ pc' = "catch"
                 /\ UNCHANGED <<dirs, fsLog>>
  /\ UNCHANGED <<body, i, normalizedPath, exists, events, filesCreated, filesUpdated,
                 errors, disk, checked, closeCalls, otherVars>>

\* await writeFile(normalizedPath, sanitizedContent): full overwrite; may throw
writeFile ==
  /\ pc = "write"
  /\ LET absolutePath == resolve(projectRoot, normalizedPath)
     IN  \/ /\ absolutePath \notin dirs
            /\ disk' = (absolutePath :> file.content) @@ disk
            /\ fsLog' = Append(fsLog, [op |-> "write", path |-> absolutePath, idx |-> i])
            /\ pc' = "track"
            /\ UNCHANGED thrown
         \/ /\ thrown' = FsError("ENOSPC")
            /\ pc' = "catch"
            /\ UNCHANGED <<disk, fsLog>>
  /\ UNCHANGED <<body, i, normalizedPath, exists, events, filesCreated, filesUpdated,
                 errors, dirs, checked, closeCalls, otherVars>>

\* TrackResult with unshift in place of push
TrackResult_Unshift ==
  /\ pc = "track"
  /\ IF exists
     THEN filesUpdated' = <<normalizedPath>> \o filesUpdated /\ UNCHANGED filesCreated
     ELSE filesCreated' = <<normalizedPath>> \o filesCreated /\ UNCHANGED filesUpdated
  /\ sendProgress(Message("file-complete", i, normalizedPath,
                          IF exists THEN "updated" ELSE "created", NoError, NoResults))
  /\ i' = i + 1
  /\ pc' = "loop"
  /\ UNCHANGED <<body, normalizedPath, exists, thrown, errors, disk, dirs, fsLog,
                 checked, closeCalls, otherVars>>

\* results.filesUpdated / filesCreated push and file-complete
TrackResult ==
  /\ pc = "track"
  /\ IF exists
     THEN filesUpdated' = Append(filesUpdated, normalizedPath) /\ UNCHANGED filesCreated
     ELSE filesCreated' = Append(filesCreated, normalizedPath) /\ UNCHANGED filesUpdated
  /\ sendProgress(Message("file-complete", i, normalizedPath,
                          IF exists THEN "updated" ELSE "created", NoError, NoResults))
  /\ i' = i + 1
  /\ pc' = "loop"
  /\ UNCHANGED <<body, normalizedPath, exists, thrown, errors, disk, dirs, fsLog,
                 checked, closeCalls, otherVars>>

\* the per-file catch block: errors and file-error, both keyed by file.path
CatchFile ==
  /\ pc = "catch"
  /\ errors' = Append(errors, [path |-> file.path, reason |-> thrown.reason,
                               arg |-> thrown.arg])
  /\ sendProgress(Message("file-error", i, file.path, "", thrown, NoResults))
  /\ thrown' = NoError
  /\ i' = i + 1
  /\ pc' = "loop"
  /\ UNCHANGED <<body, normalizedPath, exists, filesCreated, filesUpdated, disk, dirs,
                 fsLog, checked, closeCalls, otherVars>>

\* after the loop: the complete event with the results
SendComplete ==
  /\ pc = "loop"
  /\ i > total
  /\ sendProgress(Message("complete", 0, <<>>, "", NoError, results))
  /\ pc' = "finally"
  /\ UNCHANGED <<body, i, normalizedPath, exists, thrown, filesCreated, filesUpdated,
                 errors, disk, dirs, fsLog, checked, closeCalls, otherVars>>

\* the outer catch block: the error event
Fatal ==
  /\ pc = "fatal"
  /\ sendProgress(Message("error", 0, <<>>, "", thrown, NoResults))
  /\ pc' = "finally"
  /\ UNCHANGED <<body, i, normalizedPath, exists, thrown, filesCreated, filesUpdated,
                 errors, disk, dirs, fsLog, checked, closeCalls, otherVars>>

\* finally { await writer.close() }: closing a closed writer rejects, and the
\* rejection leaves the task unhandled
Finally ==
  /\ pc = "finally"
  /\ closeCalls' = closeCalls + 1
  /\ pc' = IF closeCalls >= 1 THEN "rejected" ELSE "done"
  /\ UNCHANGED <<body, i, normalizedPath, exists, thrown, events, filesCreated,
                 filesUpdated, errors, disk, dirs, fsLog, checked, otherVars>>

Next ==
  \/ ReadBody
  \/ JsonError
  \/ CloseAfterJsonError
  \/ PrepareFiles
  \/ Validate
  \/ ValidationError
  \/ CloseAfterValidationError
  \/ SendStatus
  \/ StartFile
  \/ CheckPath
  \/ CheckExists
  \/ ensureDirectory
  \/ writeFile
  \/ TrackResult
  \/ CatchFile
  \/ SendComplete
  \/ Fatal
  \/ Finally

Spec == Init /\ [][Next]_vars

\* ------------------------------------------------------------------------
\* The path classifier on its own
\* ------------------------------------------------------------------------

\* segments the classifier's input paths are built from
PolicySegs ==
  { <<>>, <<DOT>>, <<DOT, DOT>>, <<"a">>, <<"src">>, <<"node_modules">>,
    <<DOT, "env">>, <<DOT, "git">>, <<"b", DOT, "ts">>, <<"x", DOT, "exe">>,
    <<"a", DOT, DOT, "b">>, <<"x", DOT>> }

PolicyPaths ==
  { (IF abs THEN <<SEP>> ELSE <<>>) \o join(segs) :
      segs \in (SeqsUpTo(PolicySegs, MaxSegs) \ { <<>> }), abs \in BOOLEAN }
  \cup { <<>> }

ApplyIdle ==
  /\ body = [kind |-> "none", files |-> <<>>]
  /\ pc = "idle"
  /\ i = 1
  /\ normalizedPath = <<>>
  /\ exists = FALSE
  /\ thrown = NoError
  /\ events = <<>>
  /\ filesCreated = <<>>
  /\ filesUpdated = <<>>
  /\ errors = <<>>
  /\ disk = EmptyDisk
  /\ dirs = {projectRoot}
  /\ fsLog = <<>>
  /\ checked = <<>>
  /\ closeCalls = 0

InitPath ==
  /\ ApplyIdle
  /\ FirstRequest
  /\ Connected
  /\ SandboxIdle
  /\ GenIdle
  /\ fnPath \in PolicyPaths
  /\ fnResult = Safe
  /\ fnPc = "call"

\* utils.isPathSafe(fnPath)
Classify ==
  /\ fnPc = "call"
  /\ fnResult' = isPathSafe(fnPath)
  /\ fnPc' = "returned"
  /\ UNCHANGED <<fnPath, applyVars, twiceVars, genVars, netVars, sandboxVars>>

NextPath == Classify

SpecPath == InitPath /\ [][NextPath]_vars

\* ------------------------------------------------------------------------
\* Properties of the apply endpoint
\* ------------------------------------------------------------------------

Finished == pc \in {"done", "rejected"}
Validated == body.kind = "files" /\ ApplyCodeRequestSchema(body.files)

EventsOfType(t) == SelectSeq(events, LAMBDA e : e.type = t)
FileEvents(j) == SelectSeq(events, LAMBDA e : e.idx = j)
IsTerminalFileEvent(e) == e.type \in {"file-complete", "file-error"}
IsBatchTerminal(e) == e.type \in {"complete", "error"}
CompleteSent == \E k \in 1..Len(events) : events[k].type = "complete"

normalizedOf(j) == normalizeFilePath(body.files[j].path)
\* the filesystem threw while file j was processed
FsFailed(j) ==
  \E k \in 1..Len(events) :
    /\ events[k].idx = j
    /\ events[k].type = "file-error"
    /\ events[k].error.reason \in {"EACCES", "ENOSPC"}
Written(j) == \E k \in 1..Len(fsLog) : fsLog[k].op = "write" /\ fsLog[k].idx = j

\* C1: per-file isolation.  In every complete event of a validated batch of n files
\* the three result lists hold n entries together, each file has exactly one
\* terminal event (file-complete for the files counted in filesCreated and
\* filesUpdated, file-error for those in errors), and every file whose path is
\* safe and whose filesystem operations did not throw has been written, whatever
\* happened to the files before it.
C1_PerFileIsolation ==
  \A k \in 1..Len(events) :
    events[k].type = "complete" =>
      LET r == events[k].results
      IN  /\ Validated
          /\ Len(r.filesCreated) + Len(r.filesUpdated) + Len(r.errors) = total
          /\ Len(EventsOfType("file-complete")) = Len(r.filesCreated) + Len(r.filesUpdated)
          /\ Len(EventsOfType("file-error")) = Len(r.errors)
          /\ \A j \in 1..total :
               /\ Len(SelectSeq(FileEvents(j), IsTerminalFileEvent)) = 1
               /\ (isPathSafe(normalizedOf(j)).safe /\ ~FsFailed(j)) => Written(j)

\* a batch of three files was completed whose second file is unsafe and whose
\* first and third file were written
C1_Witness ==
  /\ pc = "done"
  /\ CompleteSent
  /\ total = 3
  /\ ~isPathSafe(normalizedOf(2)).safe
  /\ Written(1) /\ Written(3) /\ ~Written(2)
  /\ Len(errors) = 1

\* the part of a resolved path below the project root
RelToRoot(abs) == SubSeq(abs, Len(projectRoot) + 2, Len(abs))
InsideRoot(abs) == abs = projectRoot \/ startsWith(abs, projectRoot \o <<SEP>>)
UnderProtectedDir(abs) ==
  \E seg \in { split(RelToRoot(abs))[k] : k \in 1..Len(split(RelToRoot(abs))) } :
    seg \in protectedDirectories
DisallowedExtension(abs) ==
  extname(abs) # <<>> /\ \A allowed \in allowedExtensions : ~endsWith(abs, allowed)

\* C2: no filesystem mutation before or against the classification.  Every
\* directory creation and every file write belongs to a file whose normalized path
\* isPathSafe has already classified safe, and its target lies inside the project
\* root, under no protected directory, and (for a write) is no protected file and
\* has no disallowed extension.
C2_NoMutationBeforeOrAgainstPolicy ==
  \A k \in 1..Len(fsLog) :
    LET m == fsLog[k]
    IN  /\ \E c \in 1..Len(checked) : checked[c].idx = m.idx /\ checked[c].result.safe
        /\ InsideRoot(m.path)
        /\ ~UnderProtectedDir(m.path)
        /\ m.op = "write" =>
             /\ basename(m.path) \notin protectedFiles
             /\ ~DisallowedExtension(m.path)

\* a directory was created and a file written in a run that also classified a
\* file unsafe
C2_Witness ==
  /\ Finished
  /\ \E k \in 1..Len(fsLog) : fsLog[k].op = "mkdir"
  /\ \E k \in 1..Len(fsLog) : fsLog[k].op = "write"
  /\ \E c \in 1..Len(checked) : ~checked[c].result.safe

\* "V" validating, "P" creating or updating, "T" terminal
EventKind(e) ==
  IF e.type = "file-progress"
  THEN (IF e.action = "validating" THEN "V"
        ELSE IF e.action \in {"creating", "updating"} THEN "P" ELSE "?")
  ELSE IF IsTerminalFileEvent(e) THEN "T" ELSE "?"
FileEventKinds(j) == [k \in 1..Len(FileEvents(j)) |-> EventKind(FileEvents(j)[k])]

\* C3: the events of one file come in the order validating, creating|updating,
\* terminal, with nothing after the terminal event, and once the batch is complete
\* every file has had exactly one terminal event.
C3_FileEventOrder ==
  /\ \A j \in 1..Len(body.files) :
       FileEventKinds(j) \in { <<>>, <<"V">>, <<"V", "P">>, <<"V", "T">>, <<"V", "P", "T">> }
  /\ CompleteSent =>
       \A j \in 1..total : Len(SelectSeq(FileEvents(j), IsTerminalFileEvent)) = 1

\* a finished batch with one file that went validating, creating, file-error and
\* another that went validating, file-error
C3_Witness ==
  /\ pc = "done"
  /\ \E j \in 1..total :
       /\ FileEventKinds(j) = <<"V", "P", "T">>
       /\ FileEvents(j)[3].type = "file-error"
  /\ \E j \in 1..total : FileEventKinds(j) = <<"V", "T">>
  /\ \E j \in 1..total : FileEventKinds(j) = <<"V", "P", "T">>
                         /\ FileEvents(j)[3].type = "file-complete"

\* C4: at most one terminal batch event (complete or error) is ever emitted, it is
\* the last event, and a request that has ended has emitted exactly one.
C4_OneTerminalBatchEvent ==
  /\ Len(SelectSeq(events, IsBatchTerminal)) <= 1
  /\ \A k \in 1..Len(events) : IsBatchTerminal(events[k]) => k = Len(events)
  /\ Finished => Len(SelectSeq(events, IsBatchTerminal)) = 1

\* a request that failed schema validation has ended with the error event alone
C4_Witness ==
  /\ Finished
  /\ body.kind = "files"
  /\ ~ApplyCodeRequestSchema(body.files)
  /\ Len(events) = 1
  /\ events[1].type = "error"

\* C5: writer.close() is invoked at most once, and exactly once by the time the
\* request has ended, on every exit path.
C5_ClosedExactlyOnce ==
  /\ closeCalls <= 1
  /\ Finished => closeCalls = 1

\* C6: a batch of 0 or of more than 100 files is rejected as a whole: nothing but
\* one error event is emitted and the filesystem is not touched.
C6_BatchSizeRejected ==
  (body.kind = "files" /\ (Len(body.files) = 0 \/ Len(body.files) > MaxBatch)) =>
    /\ \A k \in 1..Len(events) : events[k].type = "error"
    /\ Len(events) <= 1
    /\ Finished => Len(events) = 1
    /\ fsLog = <<>>
    /\ checked = <<>>

\* a request with 101 files has ended with the error event alone
C6_Witness ==
  /\ Finished
  /\ body.kind = "files"
  /\ Len(body.files) = MaxBatch + 1
  /\ Len(events) = 1
  /\ events[1].type = "error"

StructurallyBad(p) ==
  StrLen(p) = 0 \/ StrLen(p) > MaxPathChars \/ includesDotDot(p) \/ isAbsolute(p)

\* C7: one record with an empty, over-long, ".."-holding or absolute path rejects
\* the whole batch: nothing but one error event is emitted, no file is looked at
\* and the filesystem is not touched.
C7_BadPathRejectsBatch ==
  (body.kind = "files" /\ \E j \in 1..Len(body.files) : StructurallyBad(body.files[j].path)) =>
    /\ \A k \in 1..Len(events) : events[k].type = "error"
    /\ Len(events) <= 1
    /\ Finished => Len(events) = 1
    /\ fsLog = <<>>
    /\ checked = <<>>

\* a batch of three files, two of them valid and safe and one with the path ../x,
\* has ended with the error event alone
C7_Witness ==
  /\ Finished
  /\ body.kind = "files"
  /\ Len(body.files) = 3
  /\ body.files[2].path = <<DOT, DOT, SEP, "x">>
  /\ \A j \in {1, 3} : FileSchema(body.files[j].path)
                        /\ isPathSafe(normalizedOf(j)).safe
  /\ Len(events) = 1
  /\ events[1].type = "error"
  /\ fsLog = <<>>

\* the normalized paths of the files that have a file-complete event with the
\* given action, in input order
RECURSIVE CompletedPaths(_, _)
CompletedPaths(j, action) ==
  IF j > Len(body.files) THEN <<>>
  ELSE (IF \E k \in 1..Len(events) :
             events[k].idx = j /\ events[k].type = "file-complete"
             /\ events[k].action = action
        THEN <<normalizedOf(j)>> ELSE <<>>) \o CompletedPaths(j + 1, action)

\* C8: events follow input order.  The loop index of the file events never
\* decreases along the stream, the status event comes before every file event, and
\* filesCreated and filesUpdated list their paths in input order.
C8_InputOrder ==
  /\ \A a, b \in 1..Len(events) :
       (a < b /\ events[a].idx >= 1 /\ events[b].idx >= 1) => events[a].idx <= events[b].idx
  /\ \A k \in 1..Len(events) :
       events[k].idx >= 1 => (events[1].type = "status" /\ k > 1)
  /\ filesCreated = CompletedPaths(1, "created")
  /\ filesUpdated = CompletedPaths(1, "updated")

\* a finished batch that created two different files and updated one
C8_Witness ==
  /\ pc = "done"
  /\ Len(filesCreated) = 2
  /\ filesCreated[1] # filesCreated[2]
  /\ Len(filesUpdated) = 1

\* ------------------------------------------------------------------------
\* Properties of the path classifier
\* ------------------------------------------------------------------------

hasParentSegment(p) == \E k \in 1..Len(split(p)) : split(p)[k] = DotDotSeg

\* C9: every path with a ".." segment is classified unsafe for path traversal.
C9_ParentSegmentIsTraversal ==
  (fnPc = "returned" /\ hasParentSegment(fnPath)) =>
    (~fnResult.safe /\ fnResult.reason = "Path traversal detected")

CheckOrder ==
  << "Path traversal detected", "Absolute paths not allowed", "Path escapes project root",
     "Protected file", "Protected directory", "File extension not allowed" >>

\* the k-th check of the classifier rejects the normalized path n
Violates(n, k) ==
  CASE k = 1 -> traversalCheck(n)
    [] k = 2 -> absoluteCheck(n)
    [] k = 3 -> escapeCheck(n)
    [] k = 4 -> protectedFileCheck(n)
    [] k = 5 -> protectedDirCheck(n)
    [] k = 6 -> extensionCheck(n)

\* C10: the reason isPathSafe reports is that of the earliest check, in the order
\* traversal, absolute, escapes root, protected file, protected directory,
\* extension, that the path violates; a path violating none is safe.
C10_EarliestCheckReported ==
  fnPc = "returned" =>
    LET n == normalize(fnPath)
        violated == { k \in 1..6 : Violates(n, k) }
    IN  IF violated = {}
        THEN fnResult.safe
        ELSE /\ ~fnResult.safe
             /\ fnResult.reason = CheckOrder[CHOOSE k \in violated : \A m \in violated : k <= m]

\* node_modules/.env, a protected file name inside a protected directory, was
\* reported as a protected file
C10_Witness ==
  /\ fnPc = "returned"
  /\ fnPath = <<"node_modules", SEP, DOT, "env">>
  /\ Violates(normalize(fnPath), 4) /\ Violates(normalize(fnPath), 5)
  /\ fnResult.reason = "Protected file"

\* ------------------------------------------------------------------------
\* The apply endpoint on batches of one file with a protected-looking name
\* ------------------------------------------------------------------------

\* bodies with one file.  Its name is one of the ten of protectedFiles or one of
\* four more that start with ".env" or ".gitignore"; the directory it is put
\* under is none, lib/, x/y/ or "/", which makes the path absolute
ProtectedBodies ==
  LET names == protectedFiles
               \cup { <<DOT, "env", DOT, "staging">>, <<DOT, "env", DOT, "example">>,
                      <<DOT, "envrc">>, <<DOT, "gitignore", DOT, "example">> }
      directories == { <<>>, <<"lib", SEP>>, <<"x", SEP, "y", SEP>>, <<SEP>> }
  IN  { [kind |-> k, files |-> <<>>] : k \in {"badjson", "null", "nofiles"} }
      \cup { [kind |-> "files", files |-> << [path |-> d \o n, content |-> "c1"] >>] :
               d \in directories, n \in names }

InitProtected ==
  /\ body \in ProtectedBodies
  /\ pc = "start"
  /\ i = 1
  /\ normalizedPath = <<>>
  /\ exists = FALSE
  /\ thrown = NoError
  /\ events = <<>>
  /\ filesCreated = <<>>
  /\ filesUpdated = <<>>
  /\ errors = <<>>
  /\ \/ disk = EmptyDisk /\ dirs = {projectRoot}
     \/ disk = (oldFile :> "old") /\ dirs = {projectRoot, srcDir}
  /\ fsLog = <<>>
  /\ checked = <<>>
  /\ closeCalls = 0
  /\ FnIdle
  /\ FirstRequest
  /\ Connected
  /\ SandboxIdle
  /\ GenIdle

SpecProtected == InitProtected /\ [][Next]_vars

\* the tokens after the last "/" of a path
RECURSIVE FinalSegment(_)
FinalSegment(p) ==
  IF p = <<>> THEN <<>>
  ELSE IF p[Len(p)] = SEP THEN <<>>
  ELSE Append(FinalSegment(SubSeq(p, 1, Len(p) - 1)), p[Len(p)])

\* the name starts with ".env"
StartsWithDotEnv(name) ==
  Len(name) >= 2 /\ name[1] = DOT /\ name[2] \in {"env", "envrc"}

LockfileNames ==
  { <<"package-lock", DOT, "json">>, <<"yarn", DOT, "lock">>, <<"pnpm-lock", DOT, "yaml">> }

\* the ten names the code lists
ListedProtectedNames ==
  { <<DOT, "env">>, <<DOT, "env", DOT, "local">>, <<DOT, "env", DOT, "development">>,
    <<DOT, "env", DOT, "production">>, <<DOT, "env", DOT, "test">>,
    <<DOT, "git">>, <<DOT, "gitignore">> } \cup LockfileNames

\* a file is on disk at the place the apply endpoint writes path p to
FileOnDisk(p) == resolve(projectRoot, normalizeFilePath(p)) \in DOMAIN disk

\* classification c was "Protected file" and nothing was written for its file
RejectedAsProtectedFile(c) ==
  /\ ~checked[c].result.safe
  /\ checked[c].result.reason = "Protected file"
  /\ checked[c].result.arg = FinalSegment(body.files[checked[c].idx].path)
  /\ ~Written(checked[c].idx)
  /\ ~FileOnDisk(body.files[checked[c].idx].path)

\* C11 as stated: every classified path whose final segment starts with ".env", or
\* is .git, .gitignore or a lockfile name, is classified unsafe with the
\* protected-file reason and is not written.
C11_DotEnvPatternProtected ==
  \A c \in 1..Len(checked) :
    LET name == FinalSegment(body.files[checked[c].idx].path)
    IN  (StartsWithDotEnv(name) \/ name \in {<<DOT, "git">>, <<DOT, "gitignore">>}
                                \/ name \in LockfileNames)
          => RejectedAsProtectedFile(c)

\* C11 (amended): every path the apply endpoint classifies whose final segment is
\* exactly one of the ten listed names (.env, .env.local, .env.development,
\* .env.production, .env.test, .git, .gitignore, package-lock.json, yarn.lock,
\* pnpm-lock.yaml) is classified unsafe with the reason "Protected file" naming
\* that segment, and no file is written for it.
C11_ListedNamesProtected ==
  \A c \in 1..Len(checked) :
    FinalSegment(body.files[checked[c].idx].path) \in ListedProtectedNames
      => RejectedAsProtectedFile(c)

\* a finished request whose file x/y/.env.local was classified and rejected
C11_Witness ==
  /\ pc = "done"
  /\ CompleteSent
  /\ body.files[1].path = <<"x", SEP, "y", SEP, DOT, "env", DOT, "local">>
  /\ Len(checked) = 1
  /\ checked[1].result.reason = "Protected file"
  /\ Len(errors) = 1

\* ------------------------------------------------------------------------
\* normalizeFilePath on its own
\* ------------------------------------------------------------------------

\* leading slashes, then a directory, then a name
NormalizeInputs ==
  LET leads == { <<>>, <<SEP>>, <<SEP, SEP>> }
      directories == { <<>>, <<"src", SEP>>, <<"lib", SEP>>, <<"foo", SEP>>,
                       <<"foo", SEP, "src", SEP>>, <<"srcs", SEP>> }
      names == { <<"a", DOT, "ts">>, <<"package", DOT, "json">>, <<"README", DOT, "md">>,
                 <<"tailwind", DOT, "config", DOT, "ts">>, <<"src">>, <<>> }
  IN  { l \o d \o n : l \in leads, d \in directories, n \in names }

InitNormalize ==
  /\ ApplyIdle
  /\ FirstRequest
  /\ Connected
  /\ SandboxIdle
  /\ GenIdle
  /\ fnPath \in NormalizeInputs
  /\ fnResult = <<>>
  /\ fnPc = "call"

\* utils.normalizeFilePath(fnPath)
Normalize ==
  /\ fnPc = "call"
  /\ fnResult' = normalizeFilePath(fnPath)
  /\ fnPc' = "returned"
  /\ UNCHANGED <<fnPath, applyVars, twiceVars, genVars, netVars, sandboxVars>>

NextNormalize == Normalize

SpecNormalize == InitNormalize /\ [][NextNormalize]_vars

\* a path without its leading slashes
RECURSIVE WithoutLeadingSlashes(_)
WithoutLeadingSlashes(p) ==
  IF p # <<>> /\ p[1] = SEP THEN WithoutLeadingSlashes(Tail(p)) ELSE p

ConventionalDirs ==
  { <<"src">>, <<"public">>, <<"app">>, <<"pages">>, <<"components">>, <<"lib">>,
    <<"styles">>, <<"utils">> }

\* the path has a first segment followed by "/", and it is a conventional directory
UnderConventionalDir(p) ==
  \E d \in ConventionalDirs : Len(p) > Len(d) /\ SubSeq(p, 1, Len(d) + 1) = d \o <<SEP>>

\* the path is a config filename at the root: it has no directory part
IsRootConfigFile(p) == p \in configFiles

\* C12: normalizeFilePath strips the leading slashes and leaves the rest unprefixed
\* exactly when it starts under a conventional top-level directory or is itself a
\* root-level config filename; every other path, a config filename nested under a
\* non-conventional directory included, is returned with "src/" in front.
C12_PrefixRule ==
  fnPc = "returned" =>
    LET rest == WithoutLeadingSlashes(fnPath)
    IN  fnResult = IF UnderConventionalDir(rest) \/ IsRootConfigFile(rest)
                   THEN rest
                   ELSE <<"src", SEP>> \o rest

\* no element occurs twice in the sequence
NoRepeats(s) == \A a, b \in 1..Len(s) : s[a] = s[b] => a = b
Elements(s) == { s[k] : k \in 1..Len(s) }

\* C14: in every complete event filesCreated and filesUpdated are sets keyed by
\* path: no path occurs twice within either list and no path occurs in both, also
\* for batches in which two records name or normalize to the same path.
C14_ResultListsAreSets ==
  \A k \in 1..Len(events) :
    events[k].type = "complete" =>
      LET r == events[k].results
      IN  /\ NoRepeats(r.filesCreated)
          /\ NoRepeats(r.filesUpdated)
          /\ Elements(r.filesCreated) \cap Elements(r.filesUpdated) = {}

\* ------------------------------------------------------------------------
\* The apply endpoint serving the same request twice in sequence
\* ------------------------------------------------------------------------

\* bodies of at most two files; a.ts and src/a.ts name the same file
TwiceBodies ==
  LET paths == { <<"a", DOT, "ts">>, <<"src", SEP, "a", DOT, "ts">>,
                 <<"lib", SEP, "b", DOT, "ts">>, <<"x", DOT, "exe">>, <<DOT, DOT, SEP, "x">> }
      files == { [path |-> p,
                  content |-> IF p = <<"src", SEP, "a", DOT, "ts">> THEN "c2" ELSE "c1"] :
                   p \in paths }
  IN  { [kind |-> k, files |-> <<>>] : k \in {"badjson", "null"} }
      \cup { [kind |-> "files", files |-> b] : b \in SeqsUpTo(files, 2) }

\* no file is on disk before the first request
InitTwice ==
  /\ body \in TwiceBodies
  /\ pc = "start"
  /\ i = 1
  /\ normalizedPath = <<>>
  /\ exists = FALSE
  /\ thrown = NoError
  /\ events = <<>>
  /\ filesCreated = <<>>
  /\ filesUpdated = <<>>
  /\ errors = <<>>
  /\ disk = EmptyDisk
  /\ dirs \in { {projectRoot}, {projectRoot, srcDir} }
  /\ fsLog = <<>>
  /\ checked = <<>>
  /\ closeCalls = 0
  /\ FnIdle
  /\ FirstRequest
  /\ Connected
  /\ SandboxIdle
  /\ GenIdle

\* the client sends the same body again after the first request has ended: a new
\* POST with a new stream, on the disk the first request left
Resubmit ==
  /\ run = 1
  /\ pc \in {"done", "rejected"}
  /\ run' = 2
  /\ firstRun' = [results |-> results, disk |-> disk]
  /\ pc' = "start"
  /\ i' = 1
  /\ normalizedPath' = <<>>
  /\ exists' = FALSE
  /\ thrown' = NoError
  /\ events' = <<>>
  /\ filesCreated' = <<>>
  /\ filesUpdated' = <<>>
  /\ errors' = <<>>
  /\ fsLog' = <<>>
  /\ checked' = <<>>
  /\ closeCalls' = 0
  /\ UNCHANGED <<body, disk, dirs, fnVars, genVars, netVars, sandboxVars>>

NextTwice == Next \/ Resubmit

SpecTwice == InitTwice /\ [][NextTwice]_vars

TargetPaths == { normalizedOf(j) : j \in 1..Len(body.files) }
AllPolicySafe == \A j \in 1..Len(body.files) : isPathSafe(normalizedOf(j)).safe

\* C13: idempotence of apply.  For a valid batch whose target paths do not exist
\* beforehand, are all policy-safe and whose writes all succeed, the first run
\* reports every path of the batch in filesCreated and none in filesUpdated, the
\* second run reports the same paths in filesUpdated and none in filesCreated, and
\* the disk after the second run holds the same contents as after the first.
C13_ApplyTwice ==
  (/\ run = 2
   /\ CompleteSent
   /\ Validated
   /\ AllPolicySafe
   /\ firstRun.results.errors = <<>>
   /\ errors = <<>>)
    => /\ Elements(firstRun.results.filesCreated) = TargetPaths
       /\ firstRun.results.filesUpdated = <<>>
       /\ Elements(filesUpdated) = TargetPaths
       /\ filesCreated = <<>>
       /\ disk = firstRun.disk

\* ------------------------------------------------------------------------
\* Generated text as token sequences, and the two regular expressions of
\* parseAIGeneratedCode
\* ------------------------------------------------------------------------

\* the tokens the regular expressions look for; every other token is a run of
\* word characters, except "/" and "."
LTFILE == "<file"
ENDFILE == "</file>"
\* the three backticks of a code fence
FENCE == "'''"
PATHEQ == "path="
QUOTE == "\""
GT == ">"
SP == " "
NL == "\n"

\* \s and \w on tokens
isSpace(t) == t \in {SP, NL}
isWord(t) == t \notin {LTFILE, ENDFILE, FENCE, PATHEQ, QUOTE, GT, SP, NL, SEP, DOT, ""}

\* the token at position k, "" past the end
At(t, k) == IF k \in 1..Len(t) THEN t[k] ELSE ""

\* the first position from k on that holds no whitespace (no word) token
SpaceEnd(t, k) ==
  CHOOSE e \in k..(Len(t) + 1) :
    /\ \A j \in k..(e - 1) : isSpace(t[j])
    /\ ~isSpace(At(t, e))
WordEnd(t, k) ==
  CHOOSE e \in k..(Len(t) + 1) :
    /\ \A j \in k..(e - 1) : isWord(t[j])
    /\ ~isWord(At(t, e))

\* the first position from k on that holds tok, 0 when there is none
IndexOf(t, tok, k) ==
  IF \E e \in k..Len(t) : t[e] = tok
  THEN CHOOSE e \in k..Len(t) : t[e] = tok /\ \A j \in k..(e - 1) : t[j] # tok
  ELSE 0

\* String.prototype.trim
trim(s) ==
  LET kept == { k \in 1..Len(s) : ~isSpace(s[k]) }
      first == CHOOSE k \in kept : \A j \in kept : k <= j
      last == CHOOSE k \in kept : \A j \in kept : j <= k
  IN  IF kept = {} THEN <<>> ELSE SubSeq(s, first, last)

NoMatch == [ok |-> FALSE, hasPath |-> FALSE, path |-> <<>>, content |-> <<>>, end |-> 0]

\* /<file\s+path="([^"]+)">([\s\S]*?)<\/file>/ tried at position s
fileTagRegexAt(t, s) ==
  LET w == SpaceEnd(t, s + 1)
      q == IndexOf(t, QUOTE, w + 2)
      e == IF q = 0 THEN 0 ELSE IndexOf(t, ENDFILE, q + 2)
  IN  IF /\ At(t, s) = LTFILE
         /\ w > s + 1
         /\ At(t, w) = PATHEQ
         /\ At(t, w + 1) = QUOTE
         /\ q > w + 2
         /\ At(t, q + 1) = GT
         /\ e # 0
      THEN [ok |-> TRUE, hasPath |-> TRUE, path |-> SubSeq(t, w + 2, q - 1),
            content |-> SubSeq(t, q + 2, e - 1), end |-> e]
      ELSE NoMatch

\* /```(?:\w+)?\s*(?:path="([^"]+)")?\n([\s\S]*?)```/ tried at position s.  \s* is
\* greedy: with the path group it ends where path= begins; without it, it gives
\* tokens back up to its last newline, which then matches \n
markdownRegexAt(t, s) ==
  LET w == WordEnd(t, s + 1)
      g == SpaceEnd(t, w)
      q == IndexOf(t, QUOTE, g + 2)
      withPath == /\ At(t, g) = PATHEQ
                  /\ At(t, g + 1) = QUOTE
                  /\ q > g + 2
                  /\ At(t, q + 1) = NL
      newlines == { j \in w..(g - 1) : t[j] = NL }
      lastNewline == CHOOSE j \in newlines : \A k \in newlines : k <= j
      start == IF withPath THEN q + 2
               ELSE IF newlines # {} THEN lastNewline + 1
               ELSE 0
      e == IF start = 0 THEN 0 ELSE IndexOf(t, FENCE, start)
  IN  IF At(t, s) = FENCE /\ start # 0 /\ e # 0
      THEN [ok |-> TRUE, hasPath |-> withPath,
            path |-> IF withPath THEN SubSeq(t, g + 2, q - 1) ELSE <<>>,
            content |-> SubSeq(t, start, e - 1), end |-> e]
      ELSE NoMatch

\* the matches of the while (regex.exec(...)) loops, left to right, each search
\* starting after the previous match
RECURSIVE fileTagMatches(_, _)
fileTagMatches(t, from) ==
  IF from > Len(t) THEN <<>>
  ELSE LET m == fileTagRegexAt(t, from)
       IN  IF m.ok THEN <<m>> \o fileTagMatches(t, m.end + 1)
           ELSE fileTagMatches(t, from + 1)

RECURSIVE markdownMatches(_, _)
markdownMatches(t, from) ==
  IF from > Len(t) THEN <<>>
  ELSE LET m == markdownRegexAt(t, from)
       IN  IF m.ok THEN <<m>> \o markdownMatches(t, m.end + 1)
           ELSE markdownMatches(t, from + 1)

\* fileMap: a sequence of [path, content] in insertion order
mapHas(fileMap, p) == \E k \in 1..Len(fileMap) : fileMap[k].path = p
mapGet(fileMap, p) == fileMap[CHOOSE k \in 1..Len(fileMap) : fileMap[k].path = p].content
mapSet(fileMap, p, c) ==
  IF mapHas(fileMap, p)
  THEN [k \in 1..Len(fileMap) |->
          IF fileMap[k].path = p THEN [path |-> p, content |-> c] ELSE fileMap[k]]
  ELSE Append(fileMap, [path |-> p, content |-> c])

\* keepLongest that always takes the later variant
keepLongest_LastWins(fileMap, p, c) == mapSet(fileMap, p, c)

\* "Keep the longest version if duplicate"
keepLongest(fileMap, p, c) ==
  IF ~mapHas(fileMap, p) \/ StrLen(c) > StrLen(mapGet(fileMap, p))
  THEN mapSet(fileMap, p, c)
  ELSE fileMap

\* the candidates of a loop: path and trimmed content of each match with a path
RECURSIVE candidatesOf(_)
candidatesOf(matches) ==
  IF matches = <<>> THEN <<>>
  ELSE (IF Head(matches).hasPath
        THEN << [path |-> Head(matches).path, content |-> trim(Head(matches).content)] >>
        ELSE <<>>) \o candidatesOf(Tail(matches))

RECURSIVE mergeInto(_, _)
mergeInto(fileMap, candidates) ==
  IF candidates = <<>> THEN fileMap
  ELSE mergeInto(keepLongest(fileMap, Head(candidates).path, Head(candidates).content),
                 Tail(candidates))

parseAIGeneratedCode(generatedCode) ==
  LET tagged == candidatesOf(fileTagMatches(generatedCode, 1))
      fenced == candidatesOf(markdownMatches(generatedCode, 1))
  IN  mergeInto(mergeInto(<<>>, tagged), fenced)

\* ------------------------------------------------------------------------
\* parseAIGeneratedCode on its own
\* ------------------------------------------------------------------------

\* <file path="P">X</file>
FileBlock(p, x) == <<LTFILE, SP, PATHEQ, QUOTE>> \o p \o <<QUOTE, GT>> \o x \o <<ENDFILE>>
\* a fenced block: the fence, ts path="P", a newline, X, the fence
FencedBlock(p, x) ==
  <<FENCE, "ts", SP, PATHEQ, QUOTE>> \o p \o <<QUOTE, NL>> \o x \o <<FENCE>>
\* the text that holds the blocks one after the other, a newline after each
RECURSIVE Render(_)
Render(bs) ==
  IF bs = <<>> THEN <<>>
  ELSE (IF Head(bs).grammar = "tag"
        THEN FileBlock(Head(bs).path, Head(bs).content)
        ELSE FencedBlock(Head(bs).path, Head(bs).content))
       \o <<NL>> \o Render(Tail(bs))

\* a single tagged block.  Around it: nothing, prose, or a fenced block without
\* a path attribute; its content has no </file>
RoundTripInputs ==
  LET plainFence == <<FENCE, "ts", NL, "code", FENCE>>
      around == { <<>>, <<"Here", NL>>, <<NL, "Here">>, plainFence \o <<NL>> }
      paths == { <<"a", SEP, "b", DOT, "ts">>, <<"x">>, <<"a", SP, "b">>, <<"p", GT>> }
      contents == { <<"abc">>, <<NL, "abc", SP>>, <<>>, <<SP, NL>>,
                    <<"abc", QUOTE, GT, NL, "xyz">>,
                    <<LTFILE, SP, PATHEQ, QUOTE, "q", QUOTE, GT, "xyz">>,
                    plainFence,
                    <<"abc", NL>> \o FencedBlock(<<"q">>, <<"code">>) }
  IN  { [kind |-> "roundTrip", pre |-> a, path |-> p, content |-> x, post |-> b] :
          a \in around, p \in paths, x \in contents, b \in around }

\* blocks of both grammars; two contents have the same length once trimmed, one
\* of them is the longest only before it is trimmed
BlocksInputs ==
  LET contents == { <<"abc">>, <<"code">>, <<NL, SP, "xyz", SP>> }
      paths == { <<"p">>, <<"a", SEP, "b", DOT, "ts">> }
      blocks == { [grammar |-> g, path |-> p, content |-> x] :
                    g \in {"tag", "fence"}, p \in paths, x \in contents }
  IN  { [kind |-> "blocks", blocks |-> bs] : bs \in SeqsUpTo(blocks, MaxBlocks) }

\* extracted candidates (a) and the same candidates in another order (b)
MergeInputs ==
  LET candidates ==
        { [path |-> <<"p">>, content |-> x] : x \in { <<"abc">>, <<"xyz">>, <<"code">> } }
        \cup { [path |-> <<"a", SEP, "b", DOT, "ts">>, content |-> <<"abc">>] }
      reorderings(n) == { f \in [1..n -> 1..n] : \A a, b \in 1..n : f[a] = f[b] => a = b }
  IN  UNION { { [kind |-> "merge", a |-> cs, b |-> [k \in 1..Len(cs) |-> cs[f[k]]]] :
                  f \in reorderings(Len(cs)) } :
              cs \in SeqsUpTo(candidates, MaxBlocks) }

InitParse ==
  /\ ApplyIdle
  /\ FirstRequest
  /\ Connected
  /\ SandboxIdle
  /\ GenIdle
  /\ fnPath \in RoundTripInputs \cup BlocksInputs \cup MergeInputs
  /\ fnResult = <<>>
  /\ fnPc = "call"

\* parseAIGeneratedCode(pre + <file path="P">X</file> + post)
RoundTrip ==
  /\ fnPc = "call"
  /\ fnPath.kind = "roundTrip"
  /\ fnResult' = parseAIGeneratedCode(fnPath.pre \o FileBlock(fnPath.path, fnPath.content)
                                        \o fnPath.post)
  /\ fnPc' = "returned"
  /\ UNCHANGED <<fnPath, applyVars, twiceVars, genVars, netVars, sandboxVars>>

\* parseAIGeneratedCode(text holding the blocks)
ParseBlocks ==
  /\ fnPc = "call"
  /\ fnPath.kind = "blocks"
  /\ fnResult' = parseAIGeneratedCode(Render(fnPath.blocks))
  /\ fnPc' = "returned"
  /\ UNCHANGED <<fnPath, applyVars, twiceVars, genVars, netVars, sandboxVars>>

\* the merge loop run on the candidates in one order and in another
MergeBoth ==
  /\ fnPc = "call"
  /\ fnPath.kind = "merge"
  /\ fnResult' = [a |-> mergeInto(<<>>, fnPath.a), b |-> mergeInto(<<>>, fnPath.b)]
  /\ fnPc' = "returned"
  /\ UNCHANGED <<fnPath, applyVars, twiceVars, genVars, netVars, sandboxVars>>

NextParse == RoundTrip \/ ParseBlocks \/ MergeBoth

SpecParse == InitParse /\ [][NextParse]_vars

\* C15: parser round-trip.  For any path P without a double quote and content X
\* without </file>, parseAIGeneratedCode applied to a text that contains the single
\* block <file path="P">X</file> yields exactly one record, with path P and content
\* X with the surrounding whitespace trimmed.
C15_RoundTrip ==
  (fnPc = "returned" /\ fnPath.kind = "roundTrip") =>
    fnResult = << [path |-> fnPath.path, content |-> trim(fnPath.content)] >>

\* C16: merge rule.  When several blocks of either grammar carry the same path,
\* the result holds exactly one record for that path, its content is one of the
\* trimmed variants of that path and has the greatest length among them, wherever
\* that variant appears; paths no block carries have no record.
C16_LongestVariantKept ==
  (fnPc = "returned" /\ fnPath.kind = "blocks") =>
    LET bs == fnPath.blocks
        Variants(p) == { trim(bs[k].content) : k \in { j \in 1..Len(bs) : bs[j].path = p } }
    IN  /\ \A k \in 1..Len(fnResult) : Variants(fnResult[k].path) # {}
        /\ \A p \in { bs[k].path : k \in 1..Len(bs) } :
             /\ Cardinality({ k \in 1..Len(fnResult) : fnResult[k].path = p }) = 1
             /\ \E k \in 1..Len(fnResult) :
                  /\ fnResult[k].path = p
                  /\ fnResult[k].content \in Variants(p)
                  /\ \A v \in Variants(p) : StrLen(v) <= StrLen(fnResult[k].content)

\* three blocks for one path were parsed, the longest of them first and one of
\* them fenced, together with a block whose content is longer only untrimmed
C16_Witness ==
  /\ fnPc = "returned"
  /\ fnPath.kind = "blocks"
  /\ Len(fnPath.blocks) = 3
  /\ \A k \in 1..3 : fnPath.blocks[k].path = <<"p">>
  /\ fnPath.blocks[1].content = <<"code">>
  /\ fnPath.blocks[2].content = <<NL, SP, "xyz", SP>>
  /\ fnPath.blocks[2].grammar = "fence"
  /\ fnPath.blocks[3].content = <<"abc">>
  /\ fnResult = << [path |-> <<"p">>, content |-> <<"code">>] >>

\* the records of a merge result as a mapping from path to content
AsMapping(fileMap) == { <<fileMap[k].path, fileMap[k].content>> : k \in 1..Len(fileMap) }

\* C17: the merge is order-independent.  Merging the same candidates in any other
\* order, candidates of equal length and different content for one path included,
\* gives the same mapping from path to content.
C17_MergeOrderIndependent ==
  (fnPc = "returned" /\ fnPath.kind = "merge") =>
    AsMapping(fnResult.a) = AsMapping(fnResult.b)

\* ------------------------------------------------------------------------
\* The generation endpoint: request, provider selection, finalizing
\* ------------------------------------------------------------------------

\* conversation messages are cut to the last KeptMessages once there are more than
\* MaxMessages, edits to the last KeptEdits once there are more than MaxEdits
MaxMessages == 20
KeptMessages == 15
MaxEdits == 10
KeptEdits == 8
\* the provider call gets the last HistoryWindow conversation messages
HistoryWindow == 5

DefaultModel == "gemini-2.0-flash-exp"
MODEL_CONFIG ==
  [ k \in {"gemini-2.0-flash-exp", "gemini-1.5-pro", "gemini-1.5-flash",
           "llama-3.3-70b", "llama-3.1-70b", "mixtral-8x7b"} |->
      CASE k = "gemini-2.0-flash-exp" -> [provider |-> "google", model |-> "gemini-2.0-flash-exp"]
        [] k = "gemini-1.5-pro" -> [provider |-> "google", model |-> "gemini-1.5-pro-002"]
        [] k = "gemini-1.5-flash" -> [provider |-> "google", model |-> "gemini-1.5-flash-002"]
        [] k = "llama-3.3-70b" -> [provider |-> "groq", model |-> "llama-3.3-70b-versatile"]
        [] k = "llama-3.1-70b" -> [provider |-> "groq", model |-> "llama-3.1-70b-versatile"]
        [] k = "mixtral-8x7b" -> [provider |-> "groq", model |-> "mixtral-8x7b-32768"] ]

\* a JSON value given as prompt: its type and, for a string or number, its text
Prompt(type, value) == [type |-> type, value |-> value]

\* !prompt: undefined, null, 0 and '' are falsy
falsy(prompt) ==
  \/ prompt.type \in {"undefined", "null"}
  \/ prompt.type = "number" /\ prompt.value = <<"0">>
  \/ prompt.type = "string" /\ StrLen(prompt.value) = 0

\* the prompt check without trim()
promptIsValid_NoTrim(prompt) == ~falsy(prompt) /\ prompt.type = "string"

\* the negation of: !prompt || typeof prompt !== 'string' || prompt.trim().length === 0
promptIsValid(prompt) ==
  ~(falsy(prompt) \/ prompt.type # "string" \/ StrLen(trim(prompt.value)) = 0)

\* model = 'gemini-2.0-flash-exp' when the body has none
modelOf(req) == IF req.model = "absent" THEN DefaultModel ELSE req.model

\* providers[p]: the client of provider p, null without its API key, undefined for
\* any other key
configured(p) == (p = "google" /\ env.google) \/ (p = "groq" /\ env.groq)

\* selectProvider without the fallback to the other provider
selectProvider_NoFailover(req) ==
  LET model == modelOf(req)
      known == model \in DOMAIN MODEL_CONFIG
      first == IF req.provider # "absent" THEN req.provider
               ELSE IF known THEN MODEL_CONFIG[model].provider
               ELSE IF env.google THEN "google" ELSE "groq"
  IN  IF ~env.google /\ ~env.groq
      THEN [ok |-> FALSE, status |-> 500, provider |-> "none", model |-> "none"]
      ELSE IF req.provider # "absent" /\ ~configured(req.provider)
      THEN [ok |-> FALSE, status |-> 400, provider |-> "none", model |-> "none"]
      ELSE IF configured(first)
      THEN [ok |-> TRUE, status |-> 200, provider |-> first,
            model |-> IF known THEN MODEL_CONFIG[model].model ELSE model]
      ELSE [ok |-> FALSE, status |-> 500, provider |-> "none", model |-> "none"]

\* initializeProviders() and the choice of selectedProvider and selectedModel:
\* either a JSON error response or the selection
selectProvider(req) ==
  LET model == modelOf(req)
      known == model \in DOMAIN MODEL_CONFIG
      first == IF req.provider # "absent" THEN req.provider
               ELSE IF known THEN MODEL_CONFIG[model].provider
               ELSE IF env.google THEN "google" ELSE "groq"
      firstModel == IF req.provider # "absent" THEN "unset"
                    ELSE IF known THEN MODEL_CONFIG[model].model
                    ELSE model
      fallbackProvider == IF first = "google" THEN "groq" ELSE "google"
      finalModel == IF firstModel = "unset"
                    THEN (IF known THEN MODEL_CONFIG[model].model ELSE model)
                    ELSE firstModel
  IN  IF ~env.google /\ ~env.groq
      THEN [ok |-> FALSE, status |-> 500, provider |-> "none", model |-> "none"]
      ELSE IF req.provider # "absent" /\ ~configured(req.provider)
      THEN [ok |-> FALSE, status |-> 400, provider |-> "none", model |-> "none"]
      ELSE IF configured(first)
      THEN [ok |-> TRUE, status |-> 200, provider |-> first, model |-> finalModel]
      ELSE IF configured(fallbackProvider)
      THEN [ok |-> TRUE, status |-> 200, provider |-> fallbackProvider, model |-> finalModel]
      ELSE [ok |-> FALSE, status |-> 500, provider |-> "none", model |-> "none"]

\* messages.slice(-n)
lastN(s, n) == IF Len(s) <= n THEN s ELSE SubSeq(s, Len(s) - n + 1, Len(s))

\* withUserMessage that never cuts the messages
withUserMessage_NoCut(conv, userMessage) ==
  [exists |-> TRUE,
   messages |-> Append(conv.messages, userMessage),
   edits |-> IF Len(conv.edits) > MaxEdits THEN lastN(conv.edits, KeptEdits) ELSE conv.edits]

\* the conversation state after the handler has initialized it when missing,
\* pushed the user message and cut both histories
withUserMessage(conv, userMessage) ==
  LET pushed == Append(conv.messages, userMessage)
  IN  [exists |-> TRUE,
       messages |-> IF Len(pushed) > MaxMessages THEN lastN(pushed, KeptMessages) ELSE pushed,
       edits |-> IF Len(conv.edits) > MaxEdits THEN lastN(conv.edits, KeptEdits) ELSE conv.edits]

\* recentMessages: the last messages of the conversation without the request's own
recentMessages(conv, userMessage) ==
  IF conv.exists /\ Len(conv.messages) > 1
  THEN LET recent == SelectSeq(lastN(conv.messages, HistoryWindow),
                               LAMBDA m : m.id # userMessage.id)
       IN  [k \in 1..Len(recent) |-> [role |-> recent[k].role, content |-> recent[k].content]]
  ELSE <<>>

\* what explanation || 'Code generated successfully' falls back to
DefaultExplanation == <<"Code generated successfully">>

\* explanationOf that takes the whole text
explanationOf_WholeText(generatedCode) == trim(generatedCode)

\* generatedCode.match(/^([\s\S]*?)(?=<file|$)/)[1].trim()
explanationOf(generatedCode) ==
  LET marker == IndexOf(generatedCode, LTFILE, 1)
  IN  trim(IF marker = 0 THEN generatedCode ELSE SubSeq(generatedCode, 1, marker - 1))

\* /<file path="([^"]+)">([\s\S]*?)<\/file>/ tried at position s
generatedFileRegexAt(t, s) ==
  LET q == IndexOf(t, QUOTE, s + 4)
      e == IF q = 0 THEN 0 ELSE IndexOf(t, ENDFILE, q + 2)
  IN  IF /\ At(t, s) = LTFILE
         /\ At(t, s + 1) = SP
         /\ At(t, s + 2) = PATHEQ
         /\ At(t, s + 3) = QUOTE
         /\ q > s + 4
         /\ At(t, q + 1) = GT
         /\ e # 0
      THEN [ok |-> TRUE, hasPath |-> TRUE, path |-> SubSeq(t, s + 4, q - 1),
            content |-> SubSeq(t, q + 2, e - 1), end |-> e]
      ELSE NoMatch

\* generatedCode.matchAll(...), each match mapped to path and trimmed content
RECURSIVE generatedFiles(_, _)
generatedFiles(t, from) ==
  IF from > Len(t) THEN <<>>
  ELSE LET m == generatedFileRegexAt(t, from)
       IN  IF m.ok
           THEN << [path |-> m.path, content |-> trim(m.content)] >>
                \o generatedFiles(t, m.end + 1)
           ELSE generatedFiles(t, from + 1)

\* the events of the generation stream
StatusEvent(message) == [type |-> "status", message |-> message]
WarningEvent(message) == [type |-> "warning", message |-> message]
StreamEvent(content) == [type |-> "stream", content |-> content]
ErrorEvent(error) == [type |-> "error", error |-> error]
CompleteEvent(generatedCode, selected) ==
  [type |-> "complete",
   generatedCode |-> generatedCode,
   explanation |-> IF explanationOf(generatedCode) = <<>> THEN DefaultExplanation
                   ELSE explanationOf(generatedCode),
   files |-> Len(generatedFiles(generatedCode, 1)),
   model |-> selected.model,
   provider |-> selected.provider]

\* ------------------------------------------------------------------------
\* The generation endpoint: POST and its background task
\* ------------------------------------------------------------------------

nonGenVars == <<applyVars, fnVars, twiceVars, netVars, sandboxVars>>

GenRequest(kind, prompt, model, provider, isEdit) ==
  [kind |-> kind, prompt |-> prompt, model |-> model, provider |-> provider,
   isEdit |-> isEdit]

\* bodies that are no JSON, the JSON value null, objects whose prompt is missing,
\* a number, empty or blank, and objects with the prompt "p1" and every
\* combination of model, provider and isEdit
GenRequests ==
  LET noPrompt == Prompt("undefined", <<>>)
  IN  { GenRequest(k, noPrompt, "absent", "absent", FALSE) : k \in {"badjson", "null"} }
      \cup { GenRequest("object", p, "absent", "absent", e) :
               p \in { noPrompt, Prompt("number", <<"5">>), Prompt("string", <<>>),
                       Prompt("string", <<SP, NL>>) },
               e \in BOOLEAN }
      \cup { GenRequest("object", Prompt("string", <<"p1">>), m, p, e) :
               m \in {"absent", "llama-3.3-70b", "gpt-4"},
               p \in {"absent", "google", "groq", "gemini"},
               e \in BOOLEAN }

\* the texts a provider streams, as sequences of fragments: prose and a file
\* block, a file block first, prose alone, nothing, blank lines and a file block,
\* prose and a fenced block
ProviderTexts ==
  { << <<"Here", NL, LTFILE, SP>>,
       <<PATHEQ, QUOTE, "x", QUOTE, GT, "abc", ENDFILE>> >>,
    << FileBlock(<<"x">>, <<"code">>) \o <<NL, "Here">> >>,
    << <<"Here">>, <<SP, "abc", NL>> >>,
    << >>,
    << <<NL, SP>>, FileBlock(<<"x">>, <<"abc">>) >>,
    << <<"Here", NL>> \o FencedBlock(<<"x">>, <<"abc">>) >> }

InitGen ==
  /\ ApplyIdle
  /\ FnIdle
  /\ FirstRequest
  /\ Connected
  /\ SandboxIdle
  /\ gen = [r \in Slots |-> IdleSlot]
  /\ conversationState = NoConversation
  /\ env \in [google : BOOLEAN, groq : BOOLEAN, manifest : BOOLEAN]
  /\ now = 0
  /\ calls = 0
  /\ arrivals = 0

\* sendProgress of the generation stream
genSend(slot, event) == [slot EXCEPT !.events = Append(@, event)]

\* a request arrives in slot r
GArrive(r) ==
  /\ arrivals < MaxRequests
  /\ gen[r].pc \in {"none", "ended"}
  /\ \E q \in GenRequests :
       gen' = [gen EXCEPT ![r] = [IdleSlot EXCEPT !.pc = "json", !.req = q]]
  /\ arrivals' = arrivals + 1
  /\ UNCHANGED <<conversationState, env, now, calls, nonGenVars>>

\* await request.json() and the destructuring: both throw into the outer catch
GReadBody(r) ==
  /\ gen[r].pc = "json"
  /\ gen' = [gen EXCEPT ![r] =
               IF gen[r].req.kind \in {"badjson", "null"}
               THEN [@ EXCEPT !.resp = [kind |-> "json", status |-> 500], !.pc = "ended"]
               ELSE [@ EXCEPT !.pc = "handle"]]
  /\ UNCHANGED <<conversationState, env, now, calls, arrivals, nonGenVars>>

\* the synchronous part of POST: prompt check, provider selection, conversation
\* state, creation of the stream, return of the streaming response
GHandle(r) ==
  /\ gen[r].pc = "handle"
  /\ LET req == gen[r].req
         sel == selectProvider(req)
     IN  IF ~promptIsValid(req.prompt)
         THEN /\ gen' = [gen EXCEPT ![r].resp = [kind |-> "json", status |-> 400],
                                    ![r].pc = "ended"]
              /\ UNCHANGED <<conversationState, now>>
         ELSE IF ~sel.ok
         THEN /\ gen' = [gen EXCEPT ![r].resp = [kind |-> "json", status |-> sel.status],
                                    ![r].pc = "ended"]
              /\ UNCHANGED <<conversationState, now>>
         ELSE \E t \in {now, now + 1} :
                LET userMessage == [id |-> t, role |-> "user", content |-> req.prompt.value]
                IN  /\ t <= arrivals
                    /\ now' = t
                    /\ conversationState' = withUserMessage(conversationState, userMessage)
                    /\ gen' = [gen EXCEPT ![r].selected = [provider |-> sel.provider,
                                                           model |-> sel.model],
                                          ![r].userMessage = userMessage,
                                          ![r].resp = [kind |-> "stream", status |-> 200],
                                          ![r].pc = "status"]
  /\ UNCHANGED <<env, calls, arrivals, nonGenVars>>

\* status 'Initializing AI...'
GStatus(r) ==
  /\ gen[r].pc = "status"
  /\ gen' = [gen EXCEPT ![r] =
               [genSend(@, StatusEvent("Initializing AI...")) EXCEPT
                  !.pc = IF gen[r].req.isEdit /\ env.manifest THEN "context" ELSE "prepare"]]
  /\ UNCHANGED <<conversationState, env, now, calls, arrivals, nonGenVars>>

\* GEditContext whose search failure ends the request
GEditContext_Rethrow(r) ==
  /\ gen[r].pc = "context"
  /\ LET analyzing == genSend(gen[r], StatusEvent("Analyzing codebase..."))
     IN  \/ gen' = [gen EXCEPT ![r] =
                      [genSend(analyzing, WarningEvent("Could not analyze codebase"))
                         EXCEPT !.thrown = "search error", !.pc = "catch"]]
         \/ gen' = [gen EXCEPT ![r] = [analyzing EXCEPT !.pc = "prepare"]]
         \/ gen' = [gen EXCEPT ![r] =
                      [genSend(analyzing, StatusEvent("Found relevant files"))
                         EXCEPT !.editContext = TRUE, !.pc = "prepare"]]
  /\ UNCHANGED <<conversationState, env, now, calls, arrivals, nonGenVars>>

\* edit mode with a manifest: the search throws (warning), finds nothing, finds
\* files and then the selection or the reading of the files throws (warning), or
\* finds files and builds the edit context
GEditContext(r) ==
  /\ gen[r].pc = "context"
  /\ LET analyzing == genSend(gen[r], StatusEvent("Analyzing codebase..."))
     IN  \/ gen' = [gen EXCEPT ![r] =
                      [genSend(analyzing, WarningEvent("Could not analyze codebase"))
                         EXCEPT !.pc = "prepare"]]
         \/ gen' = [gen EXCEPT ![r] =
                      [genSend(genSend(analyzing, StatusEvent("Found relevant files")),
                               WarningEvent("Could not analyze codebase"))
                         EXCEPT !.pc = "prepare"]]
         \/ gen' = [gen EXCEPT ![r] = [analyzing EXCEPT !.pc = "prepare"]]
         \/ gen' = [gen EXCEPT ![r] =
                      [genSend(analyzing, StatusEvent("Found relevant files"))
                         EXCEPT !.editContext = TRUE, !.pc = "prepare"]]
  /\ UNCHANGED <<conversationState, env, now, calls, arrivals, nonGenVars>>

\* the messages for the provider and status 'Generating code...'
GPrepare(r) ==
  /\ gen[r].pc = "prepare"
  /\ gen' = [gen EXCEPT ![r] =
               [genSend(@, StatusEvent("Generating code...")) EXCEPT
                  !.history = recentMessages(conversationState, gen[r].userMessage),
                  !.pc = "call"]]
  /\ UNCHANGED <<conversationState, env, now, calls, arrivals, nonGenVars>>

\* await streamText(...): throws, or returns the stream of some text
GCall(r) ==
  /\ gen[r].pc = "call"
  /\ calls' = calls + 1
  /\ LET called ==
           [gen[r] EXCEPT !.call =
              [client |-> IF gen[r].selected.provider = "google" THEN "google" ELSE "groq",
               model |-> gen[r].selected.model,
               system |-> IF gen[r].editContext THEN "edit" ELSE "default",
               history |-> gen[r].history,
               prompt |-> gen[r].req.prompt.value]]
     IN  \/ \E text \in ProviderTexts :
              gen' = [gen EXCEPT ![r] = [called EXCEPT !.rest = text, !.pc = "streaming"]]
         \/ gen' = [gen EXCEPT ![r] =
                      [called EXCEPT !.thrown = "provider error", !.pc = "catch"]]
  /\ UNCHANGED <<conversationState, env, now, arrivals, nonGenVars>>

\* GChunk that accumulates the fragment without forwarding it
GChunk_NoForward(r) ==
  /\ gen[r].pc = "streaming"
  /\ gen[r].rest # <<>>
  /\ gen' = [gen EXCEPT ![r].generatedCode = @ \o Head(gen[r].rest),
                        ![r].rest = Tail(@)]
  /\ UNCHANGED <<conversationState, env, now, calls, arrivals, nonGenVars>>

\* one turn of for await (const chunk of result.textStream)
GChunk(r) ==
  /\ gen[r].pc = "streaming"
  /\ gen[r].rest # <<>>
  /\ gen' = [gen EXCEPT ![r] =
               [genSend(@, StreamEvent(Head(gen[r].rest))) EXCEPT
                  !.generatedCode = @ \o Head(gen[r].rest),
                  !.rest = Tail(@)]]
  /\ UNCHANGED <<conversationState, env, now, calls, arrivals, nonGenVars>>

\* the text stream throws
GStreamError(r) ==
  /\ gen[r].pc = "streaming"
  /\ gen' = [gen EXCEPT ![r].thrown = "stream error", ![r].pc = "catch"]
  /\ UNCHANGED <<conversationState, env, now, calls, arrivals, nonGenVars>>

\* GFinalize that throws after the complete event has been sent
GFinalize_ThenThrow(r) ==
  /\ gen[r].pc = "streaming"
  /\ gen[r].rest = <<>>
  /\ gen' = [gen EXCEPT ![r] =
               [genSend(@, CompleteEvent(gen[r].generatedCode, gen[r].selected)) EXCEPT
                  !.thrown = "tracking error", !.pc = "catch"]]
  /\ UNCHANGED <<conversationState, env, now, calls, arrivals, nonGenVars>>

\* after the stream has ended: explanation, files, the complete event
GFinalize(r) ==
  /\ gen[r].pc = "streaming"
  /\ gen[r].rest = <<>>
  /\ gen' = [gen EXCEPT ![r] =
               [genSend(@, CompleteEvent(gen[r].generatedCode, gen[r].selected)) EXCEPT
                  !.pc = "track"]]
  /\ UNCHANGED <<conversationState, env, now, calls, arrivals, nonGenVars>>

\* GTrack that records every edit request, with or without an edit context
GTrack_EveryEdit(r) ==
  /\ gen[r].pc = "track"
  /\ conversationState' =
       IF gen[r].req.isEdit /\ conversationState.exists
       THEN [conversationState EXCEPT
               !.edits = Append(@, [userRequest |-> gen[r].req.prompt.value,
                                    outcome |-> "success"])]
       ELSE conversationState
  /\ gen' = [gen EXCEPT ![r].pc = "finally"]
  /\ UNCHANGED <<env, now, calls, arrivals, nonGenVars>>

\* "Track edit in conversation"
GTrack(r) ==
  /\ gen[r].pc = "track"
  /\ conversationState' =
       IF gen[r].req.isEdit /\ gen[r].editContext /\ conversationState.exists
       THEN [conversationState EXCEPT
               !.edits = Append(@, [userRequest |-> gen[r].req.prompt.value,
                                    outcome |-> "success"])]
       ELSE conversationState
  /\ gen' = [gen EXCEPT ![r].pc = "finally"]
  /\ UNCHANGED <<env, now, calls, arrivals, nonGenVars>>

\* GCatch that sends no error event
GCatch_Silent(r) ==
  /\ gen[r].pc = "catch"
  /\ gen' = [gen EXCEPT ![r].pc = "finally"]
  /\ UNCHANGED <<conversationState, env, now, calls, arrivals, nonGenVars>>

\* catch (error): the error event
GCatch(r) ==
  /\ gen[r].pc = "catch"
  /\ gen' = [gen EXCEPT ![r] = [genSend(@, ErrorEvent(gen[r].thrown)) EXCEPT !.pc = "finally"]]
  /\ UNCHANGED <<conversationState, env, now, calls, arrivals, nonGenVars>>

\* finally { await writer.close() }
GFinally(r) ==
  /\ gen[r].pc = "finally"
  /\ gen' = [gen EXCEPT ![r].closeCalls = @ + 1, ![r].pc = "ended"]
  /\ UNCHANGED <<conversationState, env, now, calls, arrivals, nonGenVars>>

\* requests served one after the other, in the first slot
NextGen ==
  \/ GArrive(1)
  \/ GReadBody(1)
  \/ GHandle(1)
  \/ GStatus(1)
  \/ GEditContext(1)
  \/ GPrepare(1)
  \/ GCall(1)
  \/ GChunk(1)
  \/ GStreamError(1)
  \/ GFinalize(1)
  \/ GTrack(1)
  \/ GCatch(1)
  \/ GFinally(1)

SpecGen == InitGen /\ [][NextGen]_vars

\* ------------------------------------------------------------------------
\* Properties of the generation endpoint
\* ------------------------------------------------------------------------

GenEnded(r) == gen[r].pc = "ended"
GenEventsOfType(r, t) == SelectSeq(gen[r].events, LAMBDA e : e.type = t)

\* the text before the first "<file", the whole text when there is none
RECURSIVE BeforeFileMarker(_)
BeforeFileMarker(t) ==
  IF t = <<>> \/ Head(t) = LTFILE THEN <<>>
  ELSE <<Head(t)>> \o BeforeFileMarker(Tail(t))

\* C18 as stated: the explanation of the complete event is the prose before the
\* first file-block marker of the accumulated text, empty when the text starts
\* with a file block, and the entire text when there is no marker (with or
\* without the surrounding whitespace).
C18_ExplanationIsProse ==
  \A r \in Slots : \A k \in 1..Len(gen[r].events) :
    gen[r].events[k].type = "complete" =>
      LET e == gen[r].events[k]
          prose == BeforeFileMarker(e.generatedCode)
      IN  e.explanation = prose \/ e.explanation = trim(prose)

\* C18 (amended): the explanation of the complete event is the text before the
\* first "<file" of the accumulated text (the whole text when there is none) with
\* the surrounding whitespace removed, and the fixed sentence 'Code generated
\* successfully' when that is empty, as it is when the text starts with a file
\* block.
C18_ExplanationOrDefault ==
  \A r \in Slots : \A k \in 1..Len(gen[r].events) :
    gen[r].events[k].type = "complete" =>
      LET e == gen[r].events[k]
          prose == trim(BeforeFileMarker(e.generatedCode))
      IN  /\ e.generatedCode = gen[r].generatedCode
          /\ e.explanation = IF prose = <<>> THEN DefaultExplanation ELSE prose

\* a request has ended whose text started with a file block followed by prose,
\* and its complete event carries the fixed sentence
C18_Witness ==
  /\ GenEnded(1)
  /\ Len(GenEventsOfType(1, "complete")) = 1
  /\ gen[1].generatedCode # <<>>
  /\ Head(gen[1].generatedCode) = LTFILE
  /\ gen[1].generatedCode[Len(gen[1].generatedCode)] = "Here"
  /\ GenEventsOfType(1, "complete")[1].explanation = DefaultExplanation

\* the prompt is absent, no string, empty or whitespace only
InvalidPrompt(prompt) ==
  \/ prompt.type # "string"
  \/ \A k \in 1..Len(prompt.value) : prompt.value[k] \in {SP, NL}

ObjectRequest(r) == gen[r].req.kind = "object"

\* C19: a generation request (a JSON object) whose prompt is absent, not a string,
\* empty or whitespace-only is answered with HTTP 400 and a JSON body and nothing
\* else: no stream is opened, no event sent, no provider called, and the step
\* that answers it leaves the conversation state (existence, messages, edits) and
\* the number of provider calls as they were.
C19_InvalidPromptRejected ==
  /\ [](\A r \in Slots :
          (/\ ObjectRequest(r)
           /\ InvalidPrompt(gen[r].req.prompt)
           /\ gen[r].pc \notin {"json", "handle"})
            => /\ gen[r].pc = "ended"
               /\ gen[r].resp = [kind |-> "json", status |-> 400]
               /\ gen[r].events = <<>>
               /\ gen[r].call = NoCall
               /\ gen[r].closeCalls = 0)
  /\ [][\A r \in Slots :
          (/\ gen[r].pc = "handle"
           /\ ObjectRequest(r)
           /\ InvalidPrompt(gen[r].req.prompt)
           /\ gen'[r].pc # "handle")
            => /\ conversationState' = conversationState
               /\ calls' = calls]_vars

\* a request with a blank prompt was answered 400 after an earlier request had
\* created the conversation state and called a provider
C19_Witness ==
  /\ GenEnded(1)
  /\ ObjectRequest(1)
  /\ gen[1].req.prompt = Prompt("string", <<SP, NL>>)
  /\ gen[1].resp = [kind |-> "json", status |-> 400]
  /\ conversationState.exists
  /\ Len(conversationState.messages) = 1
  /\ calls = 1

ValidPromptRequest(r) == ObjectRequest(r) /\ ~InvalidPrompt(gen[r].req.prompt)
KeySet(p) == (p = "google" /\ env.google) \/ (p = "groq" /\ env.groq)
LastEvent(r) == gen[r].events[Len(gen[r].events)]

RequestedProvider(req) ==
  IF req.provider # "absent" THEN req.provider
  ELSE IF req.model = "absent" THEN "google"
  ELSE IF req.model \in {"llama-3.3-70b", "llama-3.1-70b", "mixtral-8x7b"} THEN "groq"
  ELSE IF req.model \in {"gemini-2.0-flash-exp", "gemini-1.5-pro", "gemini-1.5-flash"}
  THEN "google"
  ELSE "none"
OtherProvider(p) == IF p = "google" THEN "groq" ELSE "google"
Answered(r) == gen[r].resp.kind # "pending"

EventPositionsOf(sent, types) == { k \in 1..Len(sent) : sent[k].type \in types }
EventPositions(r, types) == EventPositionsOf(gen[r].events, types)
TerminalPositions(r) == EventPositions(r, {"complete", "error"})

\* C22 as stated: once the stream has been opened exactly one terminal event is
\* sent and the writer closed once, and the terminal event is error whenever an
\* exception occurred at any stage, the building of the edit context (reported by
\* the warning event) included, and complete otherwise.
C22_ErrorOnAnyException ==
  \A r \in Slots :
    (gen[r].resp.kind = "stream" /\ GenEnded(r)) =>
      LET failed == gen[r].thrown # "none" \/ EventPositions(r, {"warning"}) # {}
      IN  /\ Cardinality(TerminalPositions(r)) = 1
          /\ gen[r].closeCalls = 1
          /\ \A t \in TerminalPositions(r) :
               gen[r].events[t].type = IF failed THEN "error" ELSE "complete"

\* C22 (amended): once the stream of a generation request has been opened, at most one
\* terminal event (complete or error) is ever sent, no event follows it and every
\* stream event precedes it; the writer is closed at most once and only after the
\* terminal event; and when the request has ended exactly one terminal event has
\* been sent (complete when nothing was thrown, error when the provider call or
\* the text stream threw) and the writer has been closed exactly once.
C22_OneTerminalEventThenClose ==
  \A r \in Slots :
    gen[r].resp.kind = "stream" =>
      /\ Cardinality(TerminalPositions(r)) <= 1
      /\ \A t \in TerminalPositions(r) :
           /\ t = Len(gen[r].events)
           /\ \A k \in EventPositions(r, {"stream"}) : k < t
           /\ gen[r].events[t].type = IF gen[r].thrown = "none" THEN "complete" ELSE "error"
      /\ gen[r].closeCalls <= 1
      /\ gen[r].closeCalls = 1 => (GenEnded(r) /\ Cardinality(TerminalPositions(r)) = 1)
      /\ GenEnded(r) => gen[r].closeCalls = 1

\* a request has ended whose text stream threw after a fragment had been
\* forwarded: stream event, error event, one close
C22_Witness ==
  /\ GenEnded(1)
  /\ gen[1].thrown = "stream error"
  /\ EventPositions(1, {"stream"}) # {}
  /\ EventPositions(1, {"error"}) = {Len(gen[1].events)}
  /\ gen[1].closeCalls = 1

\* C23: when the search or context-selection step of an edit request throws, one
\* warning event is sent and no edit context is kept; the request goes on to the
\* provider call, which gets the default system prompt; the request never ends
\* without that call; and an error event, if there is one, comes from the provider
\* call or the text stream, never from the context step.
C23_DegradedEditContext ==
  \A r \in Slots :
    EventPositions(r, {"warning"}) # {} =>
      /\ Cardinality(EventPositions(r, {"warning"})) = 1
      /\ gen[r].req.isEdit
      /\ ~gen[r].editContext
      /\ gen[r].pc \notin {"status", "context"}
      /\ gen[r].call # NoCall => gen[r].call.system = "default"
      /\ gen[r].pc \in {"streaming", "track", "catch", "finally", "ended"}
           => gen[r].call # NoCall
      /\ gen[r].thrown \in {"none", "provider error", "stream error"}
      /\ gen[r].thrown # "none" => gen[r].call # NoCall
      /\ EventPositions(r, {"error"}) # {} => gen[r].thrown # "none"

\* an edit request whose context step threw has ended with a complete event after
\* a file block was streamed
C23_Witness ==
  /\ GenEnded(1)
  /\ gen[1].req.isEdit
  /\ EventPositions(1, {"warning"}) # {}
  /\ EventPositions(1, {"stream"}) # {}
  /\ gen[1].call.system = "default"
  /\ EventPositions(1, {"complete"}) = {Len(gen[1].events)}
  /\ EventPositions(1, {"error"}) = {}

\* the contents of the stream events of request r, in order
StreamContents(r) ==
  LET streamed == GenEventsOfType(r, "stream")
  IN  [k \in 1..Len(streamed) |-> streamed[k].content]
RECURSIVE Concat(_)
Concat(fragments) ==
  IF fragments = <<>> THEN <<>> ELSE Head(fragments) \o Concat(Tail(fragments))

\* C24: in every state after the provider call has returned, the contents of the
\* stream events sent so far followed by the fragments not yet consumed are the
\* fragments of the text the provider streams, and their concatenation is the
\* accumulated generatedCode; the complete event is sent when no fragment is left
\* and carries that concatenation.  Every step that consumes a fragment sends it
\* as the next event, a stream event, in the same step.
C24_FragmentsForwardedInOrder ==
  /\ [](\A r \in Slots :
          gen[r].call # NoCall =>
            /\ (gen[r].thrown # "provider error")
                 => StreamContents(r) \o gen[r].rest \in ProviderTexts
            /\ Concat(StreamContents(r)) = gen[r].generatedCode
            /\ \A t \in EventPositions(r, {"complete"}) :
                 /\ gen[r].rest = <<>>
                 /\ gen[r].events[t].generatedCode = Concat(StreamContents(r)))
  /\ [][\A r \in Slots :
          (gen[r].pc = "streaming" /\ gen'[r].rest # gen[r].rest) =>
            /\ gen'[r].rest = Tail(gen[r].rest)
            /\ gen'[r].events = Append(gen[r].events, StreamEvent(Head(gen[r].rest)))]_vars

\* a request has ended with complete after two fragments, the second of which
\* completes the file block the first one opened
C24_Witness ==
  /\ GenEnded(1)
  /\ Len(StreamContents(1)) = 2
  /\ StreamContents(1)[1] = <<"Here", NL, LTFILE, SP>>
  /\ \E t \in EventPositions(1, {"complete"}) :
       /\ gen[1].events[t].generatedCode = StreamContents(1)[1] \o StreamContents(1)[2]
       /\ gen[1].events[t].files = 1

\* request r leaves the step that follows its complete event
LeavesTrack(r) == gen[r].pc = "track" /\ gen'[r].pc # "track"
EditsGrow == Len(conversationState'.edits) > Len(conversationState.edits)

\* C25 as stated: every request flagged isEdit that has sent its complete event
\* appends exactly one record to the edits list; the list grows in no other step.
C25_EveryEditRequestRecorded ==
  [][/\ \A r \in Slots :
          (LeavesTrack(r) /\ gen[r].req.isEdit)
            => Len(conversationState'.edits) = Len(conversationState.edits) + 1
     /\ EditsGrow => \E r \in Slots : LeavesTrack(r) /\ gen[r].req.isEdit]_vars

\* C25 (amended): a request appends one record to the edits list, in the step
\* after its complete event, exactly when it is flagged isEdit and an edit context
\* was built for it (a manifest is cached, the search found files and the context
\* step did not throw); the record carries its prompt and the outcome success.
\* Edit requests without an edit context, requests not in edit mode and requests
\* that end in error append none: the list grows in no other step.
C25_EditWithContextRecorded ==
  /\ [](\A r \in Slots :
          gen[r].editContext =>
            /\ gen[r].req.isEdit
            /\ env.manifest
            /\ EventPositions(r, {"warning"}) = {})
  /\ [][/\ \A r \in Slots :
             LeavesTrack(r) =>
               /\ EventPositions(r, {"complete"}) # {}
               /\ conversationState'.edits =
                    IF gen[r].req.isEdit /\ gen[r].editContext
                    THEN Append(conversationState.edits,
                                [userRequest |-> gen[r].req.prompt.value,
                                 outcome |-> "success"])
                    ELSE conversationState.edits
        /\ EditsGrow => \E r \in Slots : LeavesTrack(r) /\ gen[r].editContext]_vars

\* an edit request with an edit context has ended with complete and the edits
\* list holds its record
C25_Witness ==
  /\ GenEnded(1)
  /\ gen[1].req.isEdit
  /\ gen[1].editContext
  /\ EventPositions(1, {"complete"}) # {}
  /\ conversationState.edits = << [userRequest |-> <<"p1">>, outcome |-> "success"] >>

\* ------------------------------------------------------------------------
\* Generation requests in flight at the same time, on a conversation that
\* earlier requests have filled
\* ------------------------------------------------------------------------

\* the messages and edits n earlier requests have left
PriorMessages(n) == [k \in 1..n |-> [id |-> k - n - 1, role |-> "user", content |-> <<"p1">>]]
PriorEdits(n) == [k \in 1..n |-> [userRequest |-> <<"p1">>, outcome |-> "success"]]

InitConversation ==
  /\ ApplyIdle
  /\ FnIdle
  /\ FirstRequest
  /\ Connected
  /\ SandboxIdle
  /\ gen = [r \in Slots |-> IdleSlot]
  /\ conversationState =
       [exists |-> TRUE, messages |-> PriorMessages(MaxMessages - 1),
        edits |-> PriorEdits(MaxEdits)]
  /\ env = [google |-> TRUE, groq |-> TRUE, manifest |-> TRUE]
  /\ now = 0
  /\ calls = 0
  /\ arrivals = 0

\* the requests and the outcomes of this configuration: the prompt "p1" with and
\* without isEdit, a search that throws at once or finds files, and a provider
\* that streams one file block in one fragment
ConversationInputs(slot) ==
  /\ slot.req \in { GenRequest("object", Prompt("string", <<"p1">>), "absent", "absent", e) :
                      e \in BOOLEAN }
  /\ slot.pc = "prepare" =>
       (slot.editContext <=> EventPositionsOf(slot.events, {"warning"}) = {})
  /\ slot.pc = "streaming" => slot.rest = << FileBlock(<<"x">>, <<"code">>) \o <<NL, "Here">> >>

\* a request is served in the first free slot
FirstFree(r) == \A q \in 1..(r - 1) : gen[q].pc \notin {"none", "ended"}

\* the steps of the requests in flight interleave at their awaits
NextConversation ==
  \E r \in Slots :
    \/ GArrive(r) /\ FirstFree(r) /\ ConversationInputs(gen'[r])
    \/ GReadBody(r)
    \/ GHandle(r)
    \/ GStatus(r)
    \/ GEditContext(r) /\ ConversationInputs(gen'[r])
    \/ GPrepare(r)
    \/ GCall(r) /\ ConversationInputs(gen'[r])
    \/ GChunk(r)
    \/ GStreamError(r)
    \/ GFinalize(r)
    \/ GTrack(r)
    \/ GCatch(r)
    \/ GFinally(r)

SpecConversation == InitConversation /\ [][NextConversation]_vars

\* the same conversation with the requests served one after the other, whatever
\* their body and whatever the provider streams
SpecHistory == InitConversation /\ [][NextGen]_vars

\* request r is accepted: the synchronous part of POST has run to the response
Accepted(r) == gen[r].pc = "handle" /\ gen'[r].pc = "status"

\* C26: the messages list holds at most 20 entries in every state; it changes
\* only in the step that accepts a request, which appends the request's user
\* message and, when that makes 21, keeps exactly the last 15 of them in their
\* order, the appended message last.
C26_MessagesBounded ==
  /\ [](Len(conversationState.messages) <= 20)
  /\ [][conversationState'.messages # conversationState.messages =>
          \E r \in Slots :
            /\ Accepted(r)
            /\ LET pushed == Append(conversationState.messages, gen'[r].userMessage)
                   n == Len(pushed)
               IN  conversationState'.messages =
                     IF n > 20 THEN [k \in 1..15 |-> pushed[n - 15 + k]] ELSE pushed]_vars

\* the second request on a conversation of 19 messages has been accepted: the
\* list holds 15 messages, the first of them is the 7th of the 21 and the
\* last one is the request's own
C26_Witness ==
  /\ arrivals = 2
  /\ gen[1].pc = "status"
  /\ Len(conversationState.messages) = 15
  /\ conversationState.messages[1] = PriorMessages(19)[7]
  /\ conversationState.messages[15] = gen[1].userMessage

\* C27: in every reachable state, with the steps of concurrently running edit
\* requests interleaved in any way, the edits list holds at most 11 entries (it
\* is cut to its last 8 whenever it exceeds 10).
C27_EditsBounded == Len(conversationState.edits) <= 11

\* ------------------------------------------------------------------------
\* The caller of an apply request goes away
\* ------------------------------------------------------------------------

\* Disconnect that cancels the background task
Disconnect_Cancels ==
  /\ Connected
  /\ pc \notin {"start", "finally", "done", "rejected"}
  /\ disconnectedAt' = Len(events)
  /\ pc' = "finally"
  /\ UNCHANGED <<body, i, normalizedPath, exists, thrown, events, filesCreated,
                 filesUpdated, errors, disk, dirs, fsLog, checked, closeCalls,
                 fnVars, twiceVars, genVars, sandboxVars>>

\* the caller goes away while the background task runs: from then on
\* writer.write rejects, sendProgress catches the rejection, and the task is not
\* told
Disconnect ==
  /\ Connected
  /\ pc \notin {"start", "finally", "done", "rejected"}
  /\ disconnectedAt' = Len(events)
  /\ UNCHANGED <<applyVars, fnVars, twiceVars, genVars, sandboxVars>>

NextDisconnect == Next \/ Disconnect

SpecDisconnect == InitTwice /\ [][NextDisconnect]_vars

\* the file written last to the resolved path abs
LastWriter(abs) ==
  LET writes == { k \in 1..Len(fsLog) : fsLog[k].op = "write" /\ fsLog[k].path = abs }
  IN  fsLog[CHOOSE k \in writes : \A m \in writes : m <= k].idx

C29_SameFilesAsFileBlockParser ==
  \A r \in Slots : \A t \in EventPositions(r, {"complete"}) :
    LET e == gen[r].events[t]
        parsed == parseAIGeneratedCode(e.generatedCode)
    IN  /\ e.files = Len(parsed)
        /\ AsMapping(generatedFiles(e.generatedCode, 1)) = AsMapping(parsed)

\* ------------------------------------------------------------------------
\* Package inference: extractPackages of the apply endpoint and the loop of the
\* generation endpoint
\* ------------------------------------------------------------------------

\* further tokens of a file's content; a module reference is a token sequence
\* such as @ scope / pkg / sub
AT == "@"
SQUOTE == "'"
LPAREN == "("
RPAREN == ")"
isQuote(t) == t \in {QUOTE, SQUOTE}

\* /(?:import|require)\s*\(?['"]([^'"]+)['"]\)?/ tried at position s
importRegexAt(t, s) ==
  LET a == SpaceEnd(t, s + 1)
      b == IF At(t, a) = LPAREN THEN a + 1 ELSE a
      closing == { e \in (b + 1)..Len(t) : isQuote(t[e]) }
      q == IF closing = {} THEN 0 ELSE CHOOSE e \in closing : \A m \in closing : e <= m
  IN  IF /\ At(t, s) \in {"import", "require"}
         /\ isQuote(At(t, b))
         /\ q > b + 1
      THEN [ok |-> TRUE, ref |-> SubSeq(t, b + 1, q - 1),
            end |-> IF At(t, q + 1) = RPAREN THEN q + 1 ELSE q]
      ELSE [ok |-> FALSE, ref |-> <<>>, end |-> 0]

\* the captures of all matches from position from on, in order
RECURSIVE importMatches(_, _)
importMatches(t, from) ==
  IF from > Len(t) THEN <<>>
  ELSE LET m == importRegexAt(t, from)
       IN  IF m.ok THEN <<m.ref>> \o importMatches(t, m.end + 1)
           ELSE importMatches(t, from + 1)

\* String.prototype.split('/')
RECURSIVE splitSlash(_)
splitSlash(s) ==
  LET k == IndexOf(s, SEP, 1)
  IN  IF k = 0 THEN <<s>>
      ELSE <<SubSeq(s, 1, k - 1)>> \o splitSlash(SubSeq(s, k + 1, Len(s)))

\* importPath.startsWith('@') ? split('/').slice(0, 2).join('/') : split('/')[0]
packageNameOf(ref) ==
  LET segs == splitSlash(ref)
  IN  IF Head(ref) = AT
      THEN (IF Len(segs) = 1 THEN segs[1] ELSE segs[1] \o <<SEP>> \o segs[2])
      ELSE segs[1]

\* the references of all files, file after file
RECURSIVE referencesOf(_)
referencesOf(contents) ==
  IF contents = <<>> THEN <<>>
  ELSE importMatches(Head(contents), 1) \o referencesOf(Tail(contents))

\* the names of the references, each once, in order of first occurrence
RECURSIVE collectPackages(_, _)
collectPackages(refs, found) ==
  IF refs = <<>> THEN found
  ELSE LET name == packageNameOf(Head(refs))
       IN  collectPackages(Tail(refs),
                           IF name \in Elements(found) THEN found ELSE Append(found, name))

\* the test of extractPackages
skippedByApply(ref) ==
  \/ Head(ref) = DOT
  \/ Head(ref) = SEP
  \/ (Head(ref) = AT /\ At(ref, 2) = SEP)
  \/ ref \in { <<"react">>, <<"react-dom">>, <<"next">> }

\* the test of the generation endpoint
skippedByGeneration(ref) ==
  \/ Head(ref) = DOT
  \/ Head(ref) = SEP
  \/ ref \in { <<"fs">>, <<"path">>, <<"http">>, <<"https">>, <<"crypto">>, <<"os">>,
               <<"util">>, <<"events">> }

\* extractPackages(files)
extractPackages(contents) ==
  LET kept(ref) == ~skippedByApply(ref)
  IN  collectPackages(SelectSeq(referencesOf(contents), kept), <<>>)

\* packagesToInstall of the generation endpoint
packagesToInstall(contents) ==
  LET kept(ref) == ~skippedByGeneration(ref)
  IN  collectPackages(SelectSeq(referencesOf(contents), kept), <<>>)

\* at most MaxRefs statements per call
MaxRefs == 2

\* the statements of the inputs: each of the references written as a bare import,
\* as a require call, as a dynamic import and as an import ... from
PackageInputs ==
  LET refs == { <<"lodash", SEP, "fp">>, <<"react">>, <<"fs">>,
                <<AT, "scope", SEP, "pkg", SEP, "sub">>, <<AT, SEP, "lib", SEP, "utils">>,
                <<DOT, SEP, "a">>, <<SEP, "abs">> }
      written(ref) ==
        { <<"import", SP, SQUOTE>> \o ref \o <<SQUOTE, NL>>,
          <<"require", LPAREN, QUOTE>> \o ref \o <<QUOTE, RPAREN, NL>>,
          <<"import", "x", SP, "from", SP, SQUOTE>> \o ref \o <<SQUOTE, NL>> }
      statements == UNION { { [ref |-> ref, text |-> w] : w \in written(ref) } : ref \in refs }
  IN  { [kind |-> k, statements |-> ss, perFile |-> p] :
          k \in {"apply", "generation"},
          ss \in SeqsUpTo(statements, MaxRefs),
          p \in BOOLEAN }

\* the contents of the files of an input: one statement per file, or all
\* statements in one file
ContentsOf(input) ==
  IF input.perFile
  THEN [k \in 1..Len(input.statements) |-> input.statements[k].text]
  ELSE << Concat([k \in 1..Len(input.statements) |-> input.statements[k].text]) >>

InitPackages ==
  /\ ApplyIdle
  /\ FirstRequest
  /\ Connected
  /\ SandboxIdle
  /\ GenIdle
  /\ fnPath \in PackageInputs
  /\ fnResult = <<>>
  /\ fnPc = "call"

ExtractPackages ==
  /\ fnPc = "call"
  /\ fnPath.kind = "apply"
  /\ fnResult' = extractPackages(ContentsOf(fnPath))
  /\ fnPc' = "returned"
  /\ UNCHANGED <<fnPath, applyVars, twiceVars, genVars, netVars, sandboxVars>>

DetectPackages ==
  /\ fnPc = "call"
  /\ fnPath.kind = "generation"
  /\ fnResult' = packagesToInstall(ContentsOf(fnPath))
  /\ fnPc' = "returned"
  /\ UNCHANGED <<fnPath, applyVars, twiceVars, genVars, netVars, sandboxVars>>

NextPackages == ExtractPackages \/ DetectPackages

SpecPackages == InitPackages /\ [][NextPackages]_vars

\* a reference to a local module: relative, absolute or through the alias @/
LocalReference(ref) ==
  \/ ref[1] \in {DOT, SEP}
  \/ (Len(ref) >= 2 /\ ref[1] = AT /\ ref[2] = SEP)

\* the first n slash-delimited segments of a reference, slashes included
RECURSIVE LeadingSegments(_, _)
LeadingSegments(ref, n) ==
  IF ref = <<>> THEN <<>>
  ELSE IF Head(ref) = SEP
  THEN (IF n = 1 THEN <<>> ELSE <<SEP>> \o LeadingSegments(Tail(ref), n - 1))
  ELSE <<Head(ref)>> \o LeadingSegments(Tail(ref), n)

\* C30: in both endpoints every reported package name comes from a reference of
\* the files that does not start with '.', '/' or '@/', and is the first two
\* segments of that reference when it is scoped and its first segment otherwise;
\* no name is reported twice.
C30_NoLocalReferenceReported ==
  fnPc = "returned" /\ fnPath.kind \in {"apply", "generation"} =>
    /\ NoRepeats(fnResult)
    /\ \A k \in 1..Len(fnResult) :
         \E s \in 1..Len(fnPath.statements) :
           LET ref == fnPath.statements[s].ref
           IN  /\ ~LocalReference(ref)
               /\ fnResult[k] = LeadingSegments(ref, IF ref[1] = AT THEN 2 ELSE 1)

\* ------------------------------------------------------------------------
\* The kill-sandbox and run-command endpoints and the sandbox they share
\* ------------------------------------------------------------------------

\* the sessions a caller can register: 1 and 2
Sessions == 1..2

\* the bodies of the run-command requests: no JSON, the empty string (or no
\* command), a command line, blanks only, a number
Commands ==
  { [kind |-> "invalid", value |-> <<>>],
    [kind |-> "string", value |-> <<>>],
    [kind |-> "string", value |-> <<"npm", SP, "install", SP>>],
    [kind |-> "string", value |-> <<SP>>],
    [kind |-> "number", value |-> <<"5">>] }

\* !command is false
truthyCommand(command) ==
  \/ command.kind = "number"
  \/ (command.kind = "string" /\ command.value # <<>>)

\* command.trim().split(/\s+/): the words between runs of whitespace; [""] for
\* the empty string
RECURSIVE splitWhitespace(_)
splitWhitespace(s) ==
  LET blanks == { k \in 1..Len(s) : isSpace(s[k]) }
      k == IF blanks = {} THEN 0 ELSE CHOOSE b \in blanks : \A m \in blanks : b <= m
  IN  IF k = 0 THEN <<s>>
      ELSE <<SubSeq(s, 1, k - 1)>> \o splitWhitespace(SubSeq(s, SpaceEnd(s, k), Len(s)))

CommandRequired == [status |-> 400, success |-> FALSE, sandboxKilled |-> FALSE,
                    error |-> "Command is required"]
NoActiveSession == [status |-> 400, success |-> FALSE, sandboxKilled |-> FALSE,
                    error |-> "No active sandbox session found"]
InternalError == [status |-> 500, success |-> FALSE, sandboxKilled |-> FALSE,
                  error |-> "thrown"]
CommandRan == [status |-> 200, success |-> TRUE, sandboxKilled |-> FALSE, error |-> "none"]
Cleaned(killed) == [status |-> 200, success |-> TRUE, sandboxKilled |-> killed,
                    error |-> "none"]

\* a sandbox is created elsewhere and published through the globals; some
\* versions publish it as activeSandboxProvider only
RegisterSandbox ==
  \E s \in Sessions, asProvider \in BOOLEAN :
    /\ activeSandbox = 0
    /\ activeSandboxProvider = 0
    /\ activeSandbox' = IF asProvider THEN 0 ELSE s
    /\ activeSandboxProvider' = IF asProvider THEN s ELSE 0
    /\ sandboxData' = s
    /\ existingFiles' = [defined |-> TRUE, files |-> {"f"}]
    /\ cleared' = FALSE
    /\ UNCHANGED <<killReq, cmdReq, runCommandLog, applyVars, fnVars, twiceVars, genVars,
                   netVars>>

\* global.existingFiles.clear() when the set exists
clearedFiles(tracking) == IF tracking.defined THEN [tracking EXCEPT !.files = {}] ELSE tracking

\* kill-sandbox: from the start of POST to the await of kill() or terminate(), or
\* to the response when no session is found or the session has neither method
KillStart(k) ==
  \E method \in {"kill", "terminate", "none"} :
    LET sessionToKill == IF activeSandbox # 0 THEN activeSandbox ELSE activeSandboxProvider
    IN  /\ killReq[k].pc = "none"
        /\ \A q \in 1..(k - 1) : killReq[q].pc # "none"
        /\ IF sessionToKill = 0
           THEN /\ method = "none"
                /\ killReq' = [killReq EXCEPT ![k] = [pc |-> "done", sessionToKill |-> 0,
                                                       resp |-> Cleaned(FALSE)]]
                /\ existingFiles' = clearedFiles(existingFiles)
                /\ cleared' = TRUE
                /\ UNCHANGED <<activeSandbox, activeSandboxProvider, sandboxData>>
           ELSE IF method = "none"
           THEN /\ killReq' = [killReq EXCEPT ![k] = [pc |-> "done",
                                                       sessionToKill |-> sessionToKill,
                                                       resp |-> Cleaned(TRUE)]]
                /\ activeSandbox' = 0
                /\ activeSandboxProvider' = 0
                /\ sandboxData' = 0
                /\ existingFiles' = clearedFiles(existingFiles)
                /\ cleared' = TRUE
           ELSE /\ killReq' = [killReq EXCEPT ![k] = [pc |-> "awaiting",
                                                       sessionToKill |-> sessionToKill,
                                                       resp |-> NoJson]]
                /\ UNCHANGED <<activeSandbox, activeSandboxProvider, sandboxData,
                               existingFiles, cleared>>
        /\ UNCHANGED <<cmdReq, runCommandLog, applyVars, fnVars, twiceVars, genVars, netVars>>

\* the reset placed after sandboxKilled = true inside the try block
KillSettled_ResetInsideTry(k) ==
  \E threw \in BOOLEAN :
    /\ killReq[k].pc = "awaiting"
    /\ killReq' = [killReq EXCEPT ![k].pc = "done", ![k].resp = Cleaned(~threw)]
    /\ activeSandbox' = IF threw THEN activeSandbox ELSE 0
    /\ activeSandboxProvider' = IF threw THEN activeSandboxProvider ELSE 0
    /\ sandboxData' = IF threw THEN sandboxData ELSE 0
    /\ existingFiles' = clearedFiles(existingFiles)
    /\ cleared' = TRUE
    /\ UNCHANGED <<cmdReq, runCommandLog, applyVars, fnVars, twiceVars, genVars, netVars>>

\* kill-sandbox: kill() or terminate() has settled (resolved or thrown); the
\* catch logs, the pointers are reset, the file tracking is cleared, the
\* response is sent
KillSettled(k) ==
  \E threw \in BOOLEAN :
    /\ killReq[k].pc = "awaiting"
    /\ killReq' = [killReq EXCEPT ![k].pc = "done", ![k].resp = Cleaned(~threw)]
    /\ activeSandbox' = 0
    /\ activeSandboxProvider' = 0
    /\ sandboxData' = 0
    /\ existingFiles' = clearedFiles(existingFiles)
    /\ cleared' = TRUE
    /\ UNCHANGED <<cmdReq, runCommandLog, applyVars, fnVars, twiceVars, genVars, netVars>>

\* run-command: the request arrives and POST awaits request.json()
CmdArrive(c) ==
  \E command \in Commands :
    /\ cmdReq[c].pc = "none"
    /\ \A q \in 1..(c - 1) : cmdReq[q].pc # "none"
    /\ cmdReq' = [cmdReq EXCEPT ![c] = [NoCmd EXCEPT !.pc = "json", !.command = command]]
    /\ UNCHANGED <<activeSandbox, activeSandboxProvider, sandboxData, existingFiles, killReq,
                   runCommandLog, cleared, applyVars, fnVars, twiceVars, genVars, netVars>>

\* run-command: from the body to the response of a failed precondition, or to
\* the await of runCommand
CmdCheck(c) ==
  LET command == cmdReq[c].command
      words == splitWhitespace(trim(command.value))
      answer(resp) == /\ cmdReq' = [cmdReq EXCEPT ![c].pc = "done", ![c].resp = resp,
                                                    ![c].afterKill = cleared]
                      /\ UNCHANGED runCommandLog
  IN  /\ cmdReq[c].pc = "json"
      /\ IF command.kind = "invalid" THEN answer(InternalError)
         ELSE IF ~truthyCommand(command) THEN answer(CommandRequired)
         ELSE IF activeSandbox = 0 THEN answer(NoActiveSession)
         ELSE IF command.kind # "string" THEN answer(InternalError)
         ELSE /\ runCommandLog' = Append(runCommandLog,
                                         [session |-> activeSandbox, cmd |-> Head(words),
                                          args |-> Tail(words)])
              /\ cmdReq' = [cmdReq EXCEPT ![c].pc = "running", ![c].afterKill = cleared]
      /\ UNCHANGED <<activeSandbox, activeSandboxProvider, sandboxData, existingFiles, killReq,
                     cleared, applyVars, fnVars, twiceVars, genVars, netVars>>

\* run-command: runCommand and the output readers have settled
CmdSettled(c) ==
  \E threw \in BOOLEAN :
    /\ cmdReq[c].pc = "running"
    /\ cmdReq' = [cmdReq EXCEPT ![c].pc = "done",
                                ![c].resp = IF threw THEN InternalError ELSE CommandRan]
    /\ UNCHANGED <<activeSandbox, activeSandboxProvider, sandboxData, existingFiles, killReq,
                   runCommandLog, cleared, applyVars, fnVars, twiceVars, genVars, netVars>>

\* no sandbox is registered when the server starts
InitSandbox ==
  /\ ApplyIdle
  /\ FnIdle
  /\ FirstRequest
  /\ Connected
  /\ GenIdle
  /\ SandboxIdle

NextSandbox ==
  \/ RegisterSandbox
  \/ \E k \in KillSlots : KillStart(k)
  \/ \E k \in KillSlots : KillSettled(k)
  \/ \E c \in CmdSlots : CmdArrive(c)
  \/ \E c \in CmdSlots : CmdCheck(c)
  \/ \E c \in CmdSlots : CmdSettled(c)

SpecSandbox == InitSandbox /\ [][NextSandbox]_vars

\* C31: from the completion of a kill-sandbox request until a sandbox is
\* registered, global.activeSandbox is unset, and every run-command request with
\* a non-empty command that reaches the checks then is answered 400 with the
\* no-active-session error, which is not the missing-command error, without a
\* call of runCommand; also when kill() threw.
C31_NoCommandAfterKill ==
  /\ [](cleared => activeSandbox = 0 /\ activeSandboxProvider = 0 /\ sandboxData = 0)
  /\ [][\A c \in CmdSlots :
          (/\ cleared
           /\ cmdReq[c].pc = "json"
           /\ cmdReq'[c].pc # "json"
           /\ truthyCommand(cmdReq[c].command))
          => /\ cmdReq'[c].pc = "done"
             /\ cmdReq'[c].resp = NoActiveSession
             /\ NoActiveSession # CommandRequired
             /\ runCommandLog' = runCommandLog]_vars

\* a kill request found session 1 and its kill() threw; afterwards a command
\* line was refused for want of a session, and runCommand was never called
C31_Witness ==
  /\ cleared
  /\ killReq[1].pc = "done"
  /\ killReq[1].sessionToKill = 1
  /\ ~killReq[1].resp.sandboxKilled
  /\ cmdReq[1].pc = "done"
  /\ cmdReq[1].afterKill
  /\ cmdReq[1].command.value = <<"npm", SP, "install", SP>>
  /\ cmdReq[1].resp = NoActiveSession
  /\ runCommandLog = <<>>

\* C32: all events of one file carry the same fileName, the normalized path of
\* the file, and the entries of results.errors are keyed by normalized paths, on
\* the unsafe-path branch and on the exception branch alike.
C32_OneFileNamePerFile ==
  /\ \A k \in 1..Len(events) :
       events[k].idx >= 1 =>
         events[k].fileName = normalizeFilePath(body.files[events[k].idx].path)
  /\ \A k \in 1..Len(errors) :
       \E f \in 1..Len(body.files) : errors[k].path = normalizeFilePath(body.files[f].path)

\* the positions of the messages list that recentMessages reads: the last
\* HistoryWindow positions
WindowPositions(messages) ==
  { j \in 1..Len(messages) : j > Len(messages) - HistoryWindow }

\* C33: under any interleaving of concurrent requests, the history messages that
\* a request places between the system prompt and its own prompt are at most 4,
\* do not include its own message, and were all submitted before its own prompt.
C33_HistoryOnlyEarlierMessages ==
  [][\A r \in Slots :
       (gen[r].pc = "prepare" /\ gen'[r].pc = "call") =>
         LET messages == conversationState.messages
             own == gen[r].userMessage
             ownAt == { j \in 1..Len(messages) : messages[j] = own }
             used == { j \in WindowPositions(messages) : messages[j].id # own.id }
         IN  /\ Len(gen'[r].history) = Cardinality(used)
             /\ Len(gen'[r].history) <= 4
             /\ \A k \in 1..Len(gen'[r].history) : gen'[r].history[k].content # <<>>
             /\ \A j \in used : \E o \in ownAt : j < o]_vars

\* the model ids that MODEL_CONFIG assigns to provider p
ModelIdsOf(p) == { MODEL_CONFIG[k].model : k \in { m \in DOMAIN MODEL_CONFIG : MODEL_CONFIG[m].provider = p } }

\* C34: whenever a request with a model key known to MODEL_CONFIG has called the
\* provider, the model id given to the selected provider's client is one that
\* MODEL_CONFIG assigns to that provider, whether the provider was chosen
\* explicitly, by the model mapping or by failover.
C34_ModelIdMatchesProvider ==
  \A r \in Slots :
    (gen[r].call.client # "none" /\ modelOf(gen[r].req) \in DOMAIN MODEL_CONFIG) =>
      gen[r].call.model \in ModelIdsOf(gen[r].call.client)

\* ------------------------------------------------------------------------
\* The two layers one path passes in the apply endpoint: schema validation of the
\* batch, then normalization and the path policy in the file loop
\* ------------------------------------------------------------------------

\* what the endpoint reports for a path the schema rejects
RejectedBySchema == Unsafe("Validation failed", <<>>)

InitLayers ==
  /\ ApplyIdle
  /\ FirstRequest
  /\ Connected
  /\ SandboxIdle
  /\ GenIdle
  /\ fnPath \in PolicyPaths
  /\ fnResult = Safe
  /\ fnPc = "call"

\* ApplyCodeRequestSchema.parse on a batch with this path, then for a path that
\* passed: isPathSafe(normalizeFilePath(file.path))
ValidateThenCheck ==
  /\ fnPc = "call"
  /\ fnResult' = IF FileSchema(fnPath) THEN isPathSafe(normalizeFilePath(fnPath))
                 ELSE RejectedBySchema
  /\ fnPc' = "returned"
  /\ UNCHANGED <<fnPath, applyVars, twiceVars, genVars, netVars, sandboxVars>>

NextLayers == ValidateThenCheck

SpecLayers == InitLayers /\ [][NextLayers]_vars

\* the reasons of the first three checks of isPathSafe
StructuralReasons ==
  {"Path traversal detected", "Absolute paths not allowed", "Path escapes project root"}

\* C35: the per-file policy never reports a structural reason: a path that
\* passes the schema is normalized to a path without ".." and not absolute, and
\* the policy answers safe or with one of the other reasons; every path whose
\* normalized form would draw a structural reason has been rejected with the
\* whole batch by the schema.
C35_NoStructuralReasonPerFile ==
  fnPc = "returned" =>
    /\ fnResult.reason \notin StructuralReasons
    /\ FileSchema(fnPath) =>
         /\ fnResult = isPathSafe(normalizeFilePath(fnPath))
         /\ ~includesDotDot(normalizeFilePath(fnPath))
         /\ ~isAbsolute(normalizeFilePath(fnPath))
    /\ isPathSafe(normalizeFilePath(fnPath)).reason \in StructuralReasons =>
         fnResult = RejectedBySchema

\* the path ../../a, which the policy would report as a traversal after
\* normalization to src/../../a, has been rejected by the schema
C35_Witness ==
  /\ fnPc = "returned"
  /\ fnPath = <<DOT, DOT, SEP, DOT, DOT, SEP, "a">>
  /\ isPathSafe(normalizeFilePath(fnPath)).reason = "Path traversal detected"
  /\ fnResult = RejectedBySchema

====
